---- MODULE Spec2Model ----
(***************************************************************************)
(* Verification model of the OCR Automator field-extraction pipeline.      *)
(*                                                                         *)
(* In the text normalizer, the RUT validators and the reconciler, Python   *)
(* strings are modelled as sequences of one-character tokens (<<>> is the  *)
(* empty string); the batch, row assembler and field matcher components    *)
(* carry whole strings.  Each component of the pipeline has its own        *)
(* specification (SpecRut, SpecScorer, ...); the variables of the other    *)
(* components stay at their idle values.                                   *)
(***************************************************************************)
EXTENDS Integers, Sequences, FiniteSets, TLC

VARIABLES
    rutInput,      \* RUT validator: the digit string handed to the validator
    rutImpl,       \* RUT validator: which implementation ran last ("none" before)
    rutCalc,       \* RUT validator: the check digit it computed
    rutOk          \* RUT validator: the verdict of validate(rutInput, rutCalc)

rutVars == <<rutInput, rutImpl, rutCalc, rutOk>>

VARIABLES
    scLayout,      \* Candidate Scorer: the page text, as a sequence of segments
    scDocType,     \* Candidate Scorer: the doc_type argument ("PP" or "CC")
    scBank,        \* Candidate Scorer: whose scorer ran ("none" before)
    scChosen       \* Candidate Scorer: the (rut, dv) pair choose_rut_for_doc returned

scVars == <<scLayout, scDocType, scBank, scChosen>>

VARIABLES
    mgTrace,       \* Reconciler: the FINAL ROW blocks of the debug trace file
    mgMode,        \* Reconciler: fill_from_debug ("none", "only_blanks", "prefer_debug")
    mgRaw,         \* Reconciler: the row the CSV reader delivered
    mgDebugMap,    \* Reconciler: debug_map, key -> trace entry
    mgRow,         \* Reconciler: the row being processed
    mgPc,          \* Reconciler: position in process()
    mgStats,       \* Reconciler: debug_merge_hits and debug_merge_misses
    mgFill,        \* Reconciler: stats_fill, field -> number of fills
    mgOut          \* Reconciler: processed_rows

mgVars == <<mgTrace, mgMode, mgRaw, mgDebugMap, mgRow, mgPc, mgStats, mgFill, mgOut>>

VARIABLES
    btEntry,       \* Batch: entry point ("main", "api" = process_pdf_files, "csv" = process_all_pdfs)
    btGeocode,     \* Batch: the geocode option
    btGeoUtils,    \* Batch: GEO_UTILS_AVAILABLE
    btTesseract,   \* Batch: TESSERACT_AVAILABLE
    btDocs,        \* Batch: the input documents, in processing order
    btNext,        \* Batch: index of the document the loop handles next
    btRows,        \* Batch: all_rows
    btOutput,      \* Batch: whether a table was written, and its rows
    btPc           \* Batch: position in the entry point

btVars == <<btEntry, btGeocode, btGeoUtils, btTesseract, btDocs, btNext, btRows, btOutput, btPc>>

VARIABLES
    asBank,        \* Row Assembler: whose assembler runs ("itau", "santander"; "none" at rest)
    asDocType,     \* Row Assembler: the doc_type argument ("PP" or "CC")
    asPages,       \* Row Assembler: text_pages, one page text per element
    asSource,      \* Row Assembler: the source_name argument
    asGeoUtils,    \* Row Assembler: GEO_UTILS_AVAILABLE
    asRecord,      \* Row Assembler: the final_row returned
    asPc           \* Row Assembler: "idle", "called" or "returned"

asVars == <<asBank, asDocType, asPages, asSource, asGeoUtils, asRecord, asPc>>

VARIABLES
    mtField,       \* Field Pattern Matcher: field_name, the field being searched
    mtText,        \* Field Pattern Matcher: what each rule of the field finds in the text
    mtIdx,         \* Field Pattern Matcher: index of the rule the loop tries next
    mtValue,       \* Field Pattern Matcher: field_value
    mtTried,       \* Field Pattern Matcher: the rules evaluated so far
    mtFields,      \* Field Pattern Matcher: the fields dictionary
    mtPc           \* Field Pattern Matcher: "idle", "loop" or "done"

mtVars == <<mtField, mtText, mtIdx, mtValue, mtTried, mtFields, mtPc>>

VARIABLES
    nmImpl,        \* Text Normalizer: which cleaning function is applied ("none" at rest)
    nmInput,       \* Text Normalizer: the raw value
    nmOut          \* Text Normalizer: the results of the successive applications

nmVars == <<nmImpl, nmInput, nmOut>>

VARIABLES
    ocImpl,        \* Page OCR Driver: whose driver runs ("ocr_to_csv", "indisa"; "none" at rest)
    ocPages,       \* Page OCR Driver: the page images of the document, each named by what happens to it
    ocIdx,         \* Page OCR Driver: index of the page image handled next
    ocCfg,         \* Page OCR Driver: index of the Tesseract configuration tried next
    ocResults,     \* Page OCR Driver: text_results of the page being recognized
    ocTexts,       \* Page OCR Driver: the recognized text of the pages handled so far
    ocRow,         \* Page OCR Driver: the record of the document (<<>> before it is built)
    ocPc           \* Page OCR Driver: "idle", "page", "configs", "raised", "caught" or "done"

ocVars == <<ocImpl, ocPages, ocIdx, ocCfg, ocResults, ocTexts, ocRow, ocPc>>

VARIABLES
    clImpl,        \* Document Classifier: whose detect_document_type ran ("itau", "santander"; "none" before)
    clPages,       \* Document Classifier: text_pages: the page texts of the document
    clScores,      \* Document Classifier: the pp and cc scores the classifier computed (<<>> before)
    clLabel        \* Document Classifier: the label the classifier returned ("" before)

clVars == <<clImpl, clPages, clScores, clLabel>>

VARIABLES
    rvImpl,        \* RUT Validator on arbitrary strings: whose function ran ("auto", "santander", "geo"; "none" before)
    rvDigits,      \* RUT Validator on arbitrary strings: the digits argument, any string
    rvDv,          \* RUT Validator on arbitrary strings: the check digit argument, any string
    rvCalc,        \* RUT Validator on arbitrary strings: what computeCheckDigit returned (<<>> before)
    rvValid,       \* RUT Validator on arbitrary strings: what validate returned (FALSE before)
    rvPc           \* RUT Validator on arbitrary strings: "ready", "computed", "validated" or "raised"

rvVars == <<rvImpl, rvDigits, rvDv, rvCalc, rvValid, rvPc>>

VARIABLES
    dvImpl,        \* Check-digit mismatch handling: whose rows are normalized ("auto", "indisa"; "none" at rest)
    dvStrict,      \* Check-digit mismatch handling: the strict_dv option (process_itau_auto_v2 only)
    dvRead,        \* Check-digit mismatch handling: the RUT and check digit read for each record, in order
    dvRows,        \* Check-digit mismatch handling: the RUT and DV columns of the records handled so far
    dvStats        \* Check-digit mismatch handling: stats["rut_invalid"], the count the run reports

dvVars == <<dvImpl, dvStrict, dvRead, dvRows, dvStats>>

VARIABLES
    mlTrace,       \* Reconciler row loop: the FINAL ROW blocks of the debug trace file
    mlMode,        \* Reconciler row loop: fill_from_debug
    mlRows,        \* Reconciler row loop: the rows the csv reader yields
    mlIdx,         \* Reconciler row loop: rows handled so far
    mlDebugMap,    \* Reconciler row loop: debug_map
    mlRow,         \* Reconciler row loop: the row in hand
    mlPc,          \* Reconciler row loop: position in process()
    mlStats,       \* Reconciler row loop: stats (merge counters)
    mlFill,        \* Reconciler row loop: stats_fill
    mlBefore,      \* Reconciler row loop: the rows as they entered merge_from_debug
    mlOut          \* Reconciler row loop: out_rows

mlVars == <<mlTrace, mlMode, mlRows, mlIdx, mlDebugMap, mlRow, mlPc, mlStats, mlFill, mlBefore, mlOut>>

VARIABLES
    stEntry,       \* Startup: entry point ("main", "api" = process_pdf_files, "csv" = ocr_to_csv main)
    stTesseract,   \* Startup: the Tesseract binary answers
    stConfigOk,    \* Startup: the client configuration file is readable JSON
    stDocs,        \* Startup: the input documents ("ok", or "nopages" when rasterizing yields nothing)
    stNext,        \* Startup: index of the document the loop handles next
    stRasterized,  \* Startup: documents handed to the PDF rasterizer
    stRecognized,  \* Startup: documents with a page handed to the OCR engine
    stRows,        \* Startup: documents a row was produced from, in order
    stDiag,        \* Startup: what the caller got instead of a result
    stPc           \* Startup: position in the entry point

stVars == <<stEntry, stTesseract, stConfigOk, stDocs, stNext, stRasterized, stRecognized, stRows, stDiag, stPc>>

VARIABLES
    cwClock,       \* Concurrent web calls: datetime.now() in whole seconds
    cwGlobal,      \* Concurrent web calls: the module-level DEBUG_FILE (<<>> is the module's default path, <<ts>> a web path)
    cwPc,          \* Concurrent web calls: position of each process_pdf_files call
    cwTs,          \* Concurrent web calls: ts of each call
    cwPrev,        \* Concurrent web calls: prev_debug of each call
    cwStem,        \* Concurrent web calls: the stem of the PDF each call was given
    cwDebug,       \* Concurrent web calls: the lines of each debug file, each line tagged with the call that wrote it
    cwRi,          \* Concurrent web calls: page image folders on disk: <<ts, stem>> with the call that filled it
    cwXlsx,        \* Concurrent web calls: the workbooks on disk: the call that wrote each
    cwLog,         \* Concurrent web calls: every debug line written: the call and the file it went to
    cwLost         \* Concurrent web calls: calls that had a file of theirs deleted or overwritten by another call

cwVars == <<cwClock, cwGlobal, cwPc, cwTs, cwPrev, cwStem, cwDebug, cwRi, cwXlsx, cwLog, cwLost>>

VARIABLES
    tpEntry,       \* Temporary page images: entry point ("api" = process_pdf_files of a bank module, "indisa" = process_single_pdf, "csv" = process_all_pdfs)
    tpDocs,        \* Temporary page images: the outcome of each document ("ok", "raises", "nopages")
    tpNext,        \* Temporary page images: index of the document the loop handles next
    tpPc,          \* Temporary page images: position in the loop
    tpDisk,        \* Temporary page images: documents whose page image folder exists
    tpRows         \* Temporary page images: documents a row was appended for

tpVars == <<tpEntry, tpDocs, tpNext, tpPc, tpDisk, tpRows>>

VARIABLES
    rcRow,         \* Row cleaning twice: the row before cleaning
    rcDateFormat,  \* Row cleaning twice: date_format ("iso" or "dmy")
    rcSep,         \* Row cleaning twice: thousand_sep ("none", "dot" or "comma")
    rcStrict,      \* Row cleaning twice: strict_dv
    rcOnce,        \* Row cleaning twice: the row after one clean_and_normalize_row
    rcTwice,       \* Row cleaning twice: the row after a second clean_and_normalize_row
    rcPc           \* Row cleaning twice: passes done

rcVars == <<rcRow, rcDateFormat, rcSep, rcStrict, rcOnce, rcTwice, rcPc>>

VARIABLES
    hdFile,        \* CSV pipeline: who wrote the input file: "ocr" (write_csv) or "hand"
    hdRow,         \* CSV pipeline: the row handed to the writer, by column name
    hdCsv,         \* CSV pipeline: the header line and the one data line of the file, as a row by header
    hdOut,         \* CSV pipeline: the row process() appends, by canonical column
    hdPc           \* CSV pipeline: "row", "written" or "processed"

hdVars == <<hdFile, hdRow, hdCsv, hdOut, hdPc>>

vars == <<rutVars, scVars, mgVars, btVars, asVars, mtVars, nmVars, ocVars, clVars, rvVars, dvVars, mlVars, stVars, cwVars, tpVars, rcVars, hdVars>>

\* what the steps of one component leave alone
notRut      == <<scVars, mgVars, btVars, asVars, mtVars, nmVars, ocVars, clVars, rvVars, dvVars, mlVars, stVars, cwVars, tpVars, rcVars, hdVars>>
notScorer   == <<rutVars, mgVars, btVars, asVars, mtVars, nmVars, ocVars, clVars, rvVars, dvVars, mlVars, stVars, cwVars, tpVars, rcVars, hdVars>>
notMerge    == <<rutVars, scVars, btVars, asVars, mtVars, nmVars, ocVars, clVars, rvVars, dvVars, mlVars, stVars, cwVars, tpVars, rcVars, hdVars>>
notBatch    == <<rutVars, scVars, mgVars, asVars, mtVars, nmVars, ocVars, clVars, rvVars, dvVars, mlVars, stVars, cwVars, tpVars, rcVars, hdVars>>
notAssemble == <<rutVars, scVars, mgVars, btVars, mtVars, nmVars, ocVars, clVars, rvVars, dvVars, mlVars, stVars, cwVars, tpVars, rcVars, hdVars>>
notMatch    == <<rutVars, scVars, mgVars, btVars, asVars, nmVars, ocVars, clVars, rvVars, dvVars, mlVars, stVars, cwVars, tpVars, rcVars, hdVars>>
notNorm     == <<rutVars, scVars, mgVars, btVars, asVars, mtVars, ocVars, clVars, rvVars, dvVars, mlVars, stVars, cwVars, tpVars, rcVars, hdVars>>
notOcr      == <<rutVars, scVars, mgVars, btVars, asVars, mtVars, nmVars, clVars, rvVars, dvVars, mlVars, stVars, cwVars, tpVars, rcVars, hdVars>>
notClassify == <<rutVars, scVars, mgVars, btVars, asVars, mtVars, nmVars, ocVars, rvVars, dvVars, mlVars, stVars, cwVars, tpVars, rcVars, hdVars>>
notRutCheck == <<rutVars, scVars, mgVars, btVars, asVars, mtVars, nmVars, ocVars, clVars, dvVars, mlVars, stVars, cwVars, tpVars, rcVars, hdVars>>
notDvPolicy == <<rutVars, scVars, mgVars, btVars, asVars, mtVars, nmVars, ocVars, clVars, rvVars, mlVars, stVars, cwVars, tpVars, rcVars, hdVars>>
notMergeLoop == <<rutVars, scVars, mgVars, btVars, asVars, mtVars, nmVars, ocVars, clVars, rvVars, dvVars, stVars, cwVars, tpVars, rcVars, hdVars>>
notStartup  == <<rutVars, scVars, mgVars, btVars, asVars, mtVars, nmVars, ocVars, clVars, rvVars, dvVars, mlVars, cwVars, tpVars, rcVars, hdVars>>
notWeb      == <<rutVars, scVars, mgVars, btVars, asVars, mtVars, nmVars, ocVars, clVars, rvVars, dvVars, mlVars, stVars, tpVars, rcVars, hdVars>>
notTemp     == <<rutVars, scVars, mgVars, btVars, asVars, mtVars, nmVars, ocVars, clVars, rvVars, dvVars, mlVars, stVars, cwVars, rcVars, hdVars>>
notReclean  == <<rutVars, scVars, mgVars, btVars, asVars, mtVars, nmVars, ocVars, clVars, rvVars, dvVars, mlVars, stVars, cwVars, tpVars, hdVars>>
notHeaders  == <<rutVars, scVars, mgVars, btVars, asVars, mtVars, nmVars, ocVars, clVars, rvVars, dvVars, mlVars, stVars, cwVars, tpVars, rcVars>>

\* the ("", "") pair a scorer returns when it chooses nothing
NoRut == <<<<>>, <<>>>>

RutIdle ==
    /\ rutInput = <<>>
    /\ rutImpl = "none"
    /\ rutCalc = <<>>
    /\ rutOk = FALSE

ScIdle ==
    /\ scLayout = <<>>
    /\ scDocType = "CC"
    /\ scBank = "none"
    /\ scChosen = NoRut

MgIdle ==
    /\ mgTrace = <<>>
    /\ mgMode = "none"
    /\ mgRaw = <<>>
    /\ mgDebugMap = <<>>
    /\ mgRow = <<>>
    /\ mgPc = "idle"
    /\ mgStats = [debug_merge_hits |-> 0, debug_merge_misses |-> 0]
    /\ mgFill = <<>>
    /\ mgOut = <<>>

BtIdle ==
    /\ btEntry = "none"
    /\ btGeocode = FALSE
    /\ btGeoUtils = FALSE
    /\ btTesseract = FALSE
    /\ btDocs = <<>>
    /\ btNext = 1
    /\ btRows = <<>>
    /\ btOutput = [written |-> FALSE, rows |-> <<>>]
    /\ btPc = "idle"

AsIdle ==
    /\ asBank = "none"
    /\ asDocType = "CC"
    /\ asPages = <<>>
    /\ asSource = [type |-> "NoneType", val |-> "None"]
    /\ asGeoUtils = FALSE
    /\ asRecord = <<>>
    /\ asPc = "idle"

MtIdle ==
    /\ mtField = "none"
    /\ mtText = <<>>
    /\ mtIdx = 1
    /\ mtValue = ""
    /\ mtTried = {}
    /\ mtFields = <<>>
    /\ mtPc = "idle"

NmIdle ==
    /\ nmImpl = "none"
    /\ nmInput = <<>>
    /\ nmOut = <<>>

OcIdle ==
    /\ ocImpl = "none"
    /\ ocPages = <<>>
    /\ ocIdx = 1
    /\ ocCfg = 1
    /\ ocResults = <<>>
    /\ ocTexts = <<>>
    /\ ocRow = <<>>
    /\ ocPc = "idle"

ClIdle ==
    /\ clImpl = "none"
    /\ clPages = <<>>
    /\ clScores = <<>>
    /\ clLabel = ""

RvIdle ==
    /\ rvImpl = "none"
    /\ rvDigits = <<>>
    /\ rvDv = <<>>
    /\ rvCalc = <<>>
    /\ rvValid = FALSE
    /\ rvPc = "ready"

DvIdle ==
    /\ dvImpl = "none"
    /\ dvStrict = FALSE
    /\ dvRead = <<>>
    /\ dvRows = <<>>
    /\ dvStats = 0

MlIdle ==
    /\ mlTrace = <<>>
    /\ mlMode = "none"
    /\ mlRows = <<>>
    /\ mlIdx = 0
    /\ mlDebugMap = <<>>
    /\ mlRow = <<>>
    /\ mlPc = "idle"
    /\ mlStats = [debug_merge_hits |-> 0, debug_merge_misses |-> 0]
    /\ mlFill = <<>>
    /\ mlBefore = <<>>
    /\ mlOut = <<>>

StIdle ==
    /\ stEntry = "none"
    /\ stTesseract = TRUE
    /\ stConfigOk = TRUE
    /\ stDocs = <<>>
    /\ stNext = 1
    /\ stRasterized = {}
    /\ stRecognized = {}
    /\ stRows = <<>>
    /\ stDiag = "none"
    /\ stPc = "idle"

CwIdle ==
    /\ cwClock = 0
    /\ cwGlobal = <<>>
    /\ cwPc = <<>>
    /\ cwTs = <<>>
    /\ cwPrev = <<>>
    /\ cwStem = <<>>
    /\ cwDebug = <<>>
    /\ cwRi = {}
    /\ cwXlsx = <<>>
    /\ cwLog = {}
    /\ cwLost = {}

TpIdle ==
    /\ tpEntry = "none"
    /\ tpDocs = <<>>
    /\ tpNext = 1
    /\ tpPc = "idle"
    /\ tpDisk = {}
    /\ tpRows = <<>>

RcIdle ==
    /\ rcRow = <<>>
    /\ rcDateFormat = "iso"
    /\ rcSep = "none"
    /\ rcStrict = FALSE
    /\ rcOnce = <<>>
    /\ rcTwice = <<>>
    /\ rcPc = "idle"

HdIdle ==
    /\ hdFile = ""
    /\ hdRow = <<>>
    /\ hdCsv = <<>>
    /\ hdOut = <<>>
    /\ hdPc = "idle"

\* every component but the named one is at rest
IdleBut(component) ==
    /\ IF component = "rut" THEN TRUE ELSE RutIdle
    /\ IF component = "scorer" THEN TRUE ELSE ScIdle
    /\ IF component = "merge" THEN TRUE ELSE MgIdle
    /\ IF component = "batch" THEN TRUE ELSE BtIdle
    /\ IF component = "assemble" THEN TRUE ELSE AsIdle
    /\ IF component = "match" THEN TRUE ELSE MtIdle
    /\ IF component = "norm" THEN TRUE ELSE NmIdle
    /\ IF component = "ocr" THEN TRUE ELSE OcIdle
    /\ IF component = "classify" THEN TRUE ELSE ClIdle
    /\ IF component = "rutcheck" THEN TRUE ELSE RvIdle
    /\ IF component = "dvpolicy" THEN TRUE ELSE DvIdle
    /\ IF component = "mergeloop" THEN TRUE ELSE MlIdle
    /\ IF component = "startup" THEN TRUE ELSE StIdle
    /\ IF component = "web" THEN TRUE ELSE CwIdle
    /\ IF component = "temp" THEN TRUE ELSE TpIdle
    /\ IF component = "reclean" THEN TRUE ELSE RcIdle
    /\ IF component = "headers" THEN TRUE ELSE HdIdle

-----------------------------------------------------------------------------
(* Generic sequence helpers (Python built-ins).                            *)

RECURSIVE Reverse(_)
Reverse(s) == IF s = <<>> THEN <<>> ELSE Append(Reverse(Tail(s)), Head(s))

RECURSIVE FilterSeq(_, _)
FilterSeq(s, keep) ==
    IF s = <<>> THEN <<>>
    ELSE IF Head(s) \in keep THEN <<Head(s)>> \o FilterSeq(Tail(s), keep)
         ELSE FilterSeq(Tail(s), keep)

RECURSIVE SumSeq(_)
SumSeq(s) == IF s = <<>> THEN 0 ELSE Head(s) + SumSeq(Tail(s))

SeqsUpTo(S, n) == UNION {[1..k -> S] : k \in 0..n}

-----------------------------------------------------------------------------
(* Characters.                                                             *)

Digits == {"0", "1", "2", "3", "4", "5", "6", "7", "8", "9"}

DigitVal(c) ==
    CASE c = "0" -> 0 [] c = "1" -> 1 [] c = "2" -> 2 [] c = "3" -> 3
      [] c = "4" -> 4 [] c = "5" -> 5 [] c = "6" -> 6 [] c = "7" -> 7
      [] c = "8" -> 8 [] c = "9" -> 9

DigitChar(n) ==
    CASE n = 0 -> "0" [] n = 1 -> "1" [] n = 2 -> "2" [] n = 3 -> "3"
      [] n = 4 -> "4" [] n = 5 -> "5" [] n = 6 -> "6" [] n = 7 -> "7"
      [] n = 8 -> "8" [] n = 9 -> "9"

\* str.isdigit(): non-empty and every character a decimal digit
IsDigitStr(s) == s # <<>> /\ \A i \in 1..Len(s) : s[i] \in Digits

\* str.upper() on the characters the model uses
UpperChar(c) ==
    CASE c = "k" -> "K" [] c = "a" -> "A" [] c = "b" -> "B"
      [] c = "x" -> "X" [] c = "y" -> "Y" [] OTHER -> c
Upper(s) == [i \in 1..Len(s) |-> UpperChar(s[i])]

LowerChar(c) ==
    CASE c = "K" -> "k" [] c = "A" -> "a" [] c = "B" -> "b"
      [] c = "X" -> "x" [] c = "Y" -> "y" [] OTHER -> c
Lower(s) == [i \in 1..Len(s) |-> LowerChar(s[i])]

-----------------------------------------------------------------------------
(* Text Normalizer (process_itau_auto_v2.py).  Characters that matter to   *)
(* it: "QUOTE" is the ASCII double quote, "LDQ"/"RDQ" the typographic      *)
(* double quotes, "ZWSP" U+200B, "REPL" U+FFFD, "ACUTE" the combining      *)
(* acute accent U+0301 and "a_ac" the precomposed letter it forms with     *)
(* "a" (likewise "O_ac", "S_ac", "N_ac", "l_ac");                          *)
(* " " and "TAB" are the whitespace characters; "LOWQ" is U+201E and       *)
(* "NDASH"/"MDASH" are the dashes U+2013/U+2014.                           *)

Whitespace == {" ", "TAB"}

\* the letters that have a precomposed form with the combining acute accent
Composable == {"a", "O", "S", "N", "l"}

Composed(c) ==
    CASE c = "a" -> "a_ac" [] c = "O" -> "O_ac" [] c = "S" -> "S_ac"
      [] c = "N" -> "N_ac" [] c = "l" -> "l_ac"

Decomposed(c) ==
    CASE c = "a_ac" -> "a" [] c = "O_ac" -> "O" [] c = "S_ac" -> "S"
      [] c = "N_ac" -> "N" [] c = "l_ac" -> "l"

\* unicodedata.normalize("NFC", s): canonical composition
RECURSIVE NFC(_)
NFC(s) ==
    IF Len(s) < 2 THEN s
    ELSE IF s[1] \in Composable /\ s[2] = "ACUTE"
         THEN <<Composed(s[1])>> \o NFC(SubSeq(s, 3, Len(s)))
         ELSE <<s[1]>> \o NFC(Tail(s))

RemoveChars(s, drop) == FilterSeq(s, {s[i] : i \in 1..Len(s)} \ drop)

\* fix_text with the optional ftfy dependency absent: NFC, then drop U+FFFD
fix_text(s) == RemoveChars(NFC(s), {"REPL"})

\* re.sub(r"\s+", " ", s)
RECURSIVE CollapseWs(_)
CollapseWs(s) ==
    IF s = <<>> THEN <<>>
    ELSE IF Head(s) \in Whitespace
         THEN IF Len(s) >= 2 /\ s[2] \in Whitespace
              THEN CollapseWs(Tail(s))
              ELSE <<" ">> \o CollapseWs(Tail(s))
         ELSE <<Head(s)>> \o CollapseWs(Tail(s))

RECURSIVE LStrip(_)
LStrip(s) == IF s # <<>> /\ Head(s) \in Whitespace THEN LStrip(Tail(s)) ELSE s

\* str.strip()
Strip(s) == Reverse(LStrip(Reverse(LStrip(s))))

clean_text_value(s) ==
    LET s1 == fix_text(s)
        s2 == RemoveChars(s1, {"ZWSP"})
        s3 == RemoveChars(s2, {"QUOTE", "LDQ", "RDQ"})
    IN  Strip(CollapseWs(s3))

\* unicodedata.normalize("NFKD", value): compatibility decomposition
RECURSIVE NFKD(_)
NFKD(s) ==
    IF s = <<>> THEN <<>>
    ELSE IF Head(s) \in {Composed(c) : c \in Composable}
         THEN <<Decomposed(Head(s)), "ACUTE">> \o NFKD(Tail(s))
    ELSE IF Head(s) = "º" THEN <<"o">> \o NFKD(Tail(s))
         ELSE <<Head(s)>> \o NFKD(Tail(s))

\* the characters the aggressive digit correction is triggered by: [0-9OoIl]
DigitTrigger == Digits \cup {"O", "o", "I", "l"}

\* ocr_digit_corrections of OCRToCSV.clean_extracted_value
ocr_digit_corrections(c) ==
    CASE c \in {"O", "o"} -> <<"0">>
      [] c \in {"I", "l", "i"} -> <<"1">>
      [] c \in {"S", "s", "§"} -> <<"5">>
      [] c \in {"G", "g", "¢"} -> <<"6">>
      [] c = "Z" -> <<"2">>
      [] c = "B" -> <<"8">>
      [] c = "T" -> <<"7">>
      [] c = "A" -> <<"4">>
      [] OTHER -> <<c>>

\* ocr_corrections of OCRToCSV.clean_extracted_value
ocr_corrections(c) ==
    CASE c \in {"°", "º", "¿", "¡", "QUOTE", "LOWQ"} -> <<>>
      [] c = "©" -> <<"C">>
      [] c = "®" -> <<"R">>
      [] c \in {"NDASH", "MDASH"} -> <<"-">>
      [] OTHER -> <<c>>

\* value.replace(wrong, correct) for every entry of a one-character table
RECURSIVE ReplaceEach(_, _)
ReplaceEach(s, table) ==
    IF s = <<>> THEN <<>>
    ELSE (IF table = "digits" THEN ocr_digit_corrections(Head(s))
          ELSE ocr_corrections(Head(s))) \o ReplaceEach(Tail(s), table)

\* OCRToCSV.clean_extracted_value
clean_extracted_value(value) ==
    IF value = <<>> THEN <<>>
    ELSE LET v1 == NFKD(value)
             v2 == Strip(CollapseWs(v1))
             v3 == IF \E i \in 1..Len(v2) : v2[i] \in DigitTrigger
                   THEN ReplaceEach(v2, "digits") ELSE v2
             v4 == ReplaceEach(v3, "other")
         IN  Strip(v4)

\* The raw values the normalizer is run on: every string of at most NmMaxLen
\* characters of the alphabet below.
NmMaxLen == 3
NmPasses == 2
NmAlphabet == {"a", "ACUTE", "a_ac", "ZWSP", "REPL", "QUOTE", "LDQ", " ", "TAB",
               "O", "l", "S", "T", "N", "1"}

InitNorm ==
    /\ nmImpl \in {"clean_text_value", "clean_extracted_value"}
    /\ nmInput \in SeqsUpTo(NmAlphabet, NmMaxLen)
    /\ nmOut = <<>>
    /\ IdleBut("norm")

NmLast == IF nmOut = <<>> THEN nmInput ELSE nmOut[Len(nmOut)]

\* clean_text_value applied to the value, or to its own previous result
CleanCell ==
    /\ nmImpl = "clean_text_value"
    /\ Len(nmOut) < NmPasses
    /\ nmOut' = Append(nmOut, clean_text_value(NmLast))
    /\ UNCHANGED <<nmImpl, nmInput, notNorm>>

\* clean_extracted_value applied to the value, or to its own previous result
CleanExtracted ==
    /\ nmImpl = "clean_extracted_value"
    /\ Len(nmOut) < NmPasses
    /\ nmOut' = Append(nmOut, clean_extracted_value(NmLast))
    /\ UNCHANGED <<nmImpl, nmInput, notNorm>>

NextNorm == CleanCell \/ CleanExtracted

SpecNorm == InitNorm /\ [][NextNorm]_vars

-----------------------------------------------------------------------------
(* RUT Validator: the three implementations of the repository.             *)

factors == <<2, 3, 4, 5, 6, 7>>

\* sum(d * factors[i % len(factors)] for i, d in enumerate(reversed_digits))
WeightedSum(reversed_digits) ==
    SumSeq([i \in 1..Len(reversed_digits) |->
               DigitVal(reversed_digits[i]) * factors[((i - 1) % Len(factors)) + 1]])

ModToDv(mod) ==
    IF mod = 11 THEN <<"0">>
    ELSE IF mod = 10 THEN <<"K">>
    ELSE <<DigitChar(mod)>>

\* rut_calc_dv with the "mod == 11" case forgotten
rut_calc_dv_no11(num_str) ==
    IF ~IsDigitStr(num_str) THEN <<>>
    ELSE LET mod == 11 - (WeightedSum(Reverse(num_str)) % 11)
         IN  IF mod = 10 THEN <<"K">>
             ELSE IF mod = 11 THEN <<"1", "1">>
             ELSE <<DigitChar(mod)>>

\* process_itau_auto_v2.rut_calc_dv
rut_calc_dv(num_str) ==
    IF ~IsDigitStr(num_str) THEN <<>>
    ELSE ModToDv(11 - (WeightedSum(Reverse(num_str)) % 11))

\* process_itau_auto_v2.rut_clean_digits: re.sub(r"[^\dkK]", "", rut)
rut_clean_digits(rut) == FilterSeq(rut, Digits \cup {"k", "K"})

\* process_itau_auto_v2.normalize_rut_and_dv -> (rut_num, dv_clean, calc, valid)
normalize_rut_and_dv(rut, dv) ==
    LET rut_num  == rut_clean_digits(rut)
        dv_clean == Upper(clean_text_value(dv))
        calc     == IF rut_num # <<>> THEN rut_calc_dv(rut_num) ELSE <<>>
        valid    == IF rut_num # <<>> /\ dv_clean # <<>> THEN calc = dv_clean ELSE TRUE
    IN  <<rut_num, dv_clean, calc, valid>>

\* process_santander_unified_v1.rut_calc_dv
santander_rut_calc_dv(num_str) ==
    IF ~IsDigitStr(num_str) THEN <<>>
    ELSE ModToDv(11 - (WeightedSum(Reverse(num_str)) % 11))

\* is_valid_rut folding the check digit to lower case instead of upper case
is_valid_rut_lower(rut, dv) ==
    LET rut_num == FilterSeq(rut, Digits)
        dvl     == Lower(dv)
    IN  IF rut_num = <<>> \/ dvl = <<>> THEN FALSE
        ELSE santander_rut_calc_dv(rut_num) = dvl

\* process_santander_unified_v1.is_valid_rut
is_valid_rut(rut, dv) ==
    LET rut_num == FilterSeq(rut, Digits)
        dvu     == Upper(dv)
    IN  IF rut_num = <<>> \/ dvu = <<>> THEN FALSE
        ELSE santander_rut_calc_dv(rut_num) = dvu

\* geocoding_utils.calculate_dv
calculate_dv(rut) ==
    IF ~IsDigitStr(rut) THEN <<>>
    ELSE ModToDv(11 - (WeightedSum(Reverse(rut)) % 11))

\* geocoding_utils.validate_rut_dv -> (rut_clean, dv_calculated, is_valid)
validate_rut_dv(rut, dv) ==
    IF rut = <<>> THEN <<<<>>, <<>>, FALSE>>
    ELSE LET rut_clean == FilterSeq(rut, Digits)
         IN  IF rut_clean = <<>> THEN <<<<>>, <<>>, FALSE>>
             ELSE LET dv_calculated == calculate_dv(rut_clean)
                      dv_clean      == IF dv # <<>> THEN Strip(Upper(dv)) ELSE <<>>
                  IN  <<rut_clean, dv_calculated, dv_clean = dv_calculated>>

\* Inputs of the validator: digit strings of up to RutMaxLen characters
RutMinLen == 7
RutMaxLen == 8
RutDigits == {"1", "4", "6", "9"}
RutInputs == SeqsUpTo(RutDigits, RutMaxLen)

InitRut ==
    /\ rutInput \in RutInputs
    /\ rutImpl = "none"
    /\ rutCalc = <<>>
    /\ rutOk = FALSE
    /\ IdleBut("rut")

\* computeCheckDigit, then validate against it: process_itau_auto_v2
RutAuto ==
    /\ UNCHANGED notRut
    /\ rutImpl = "none"
    /\ rutImpl' = "auto"
    /\ rutCalc' = rut_calc_dv(rutInput)
    /\ rutOk' = normalize_rut_and_dv(rutInput, rut_calc_dv(rutInput))[4]
    /\ UNCHANGED rutInput

\* the same with process_santander_unified_v1
RutSantander ==
    /\ UNCHANGED notRut
    /\ rutImpl = "none"
    /\ rutImpl' = "santander"
    /\ rutCalc' = santander_rut_calc_dv(rutInput)
    /\ rutOk' = is_valid_rut(rutInput, santander_rut_calc_dv(rutInput))
    /\ UNCHANGED rutInput

\* the same with geocoding_utils
RutGeo ==
    /\ UNCHANGED notRut
    /\ rutImpl = "none"
    /\ rutImpl' = "geo"
    /\ rutCalc' = calculate_dv(rutInput)
    /\ rutOk' = validate_rut_dv(rutInput, calculate_dv(rutInput))[3]
    /\ UNCHANGED rutInput

NextRut == RutAuto \/ RutSantander \/ RutGeo

SpecRut == InitRut /\ [][NextRut]_vars

(* ---- Claims about the RUT validator ---- *)

IsRutLength(s) == Len(s) >= RutMinLen /\ Len(s) <= RutMaxLen

\* C3: for every all-digit string d of length 7 or 8, validating d against
\* its own computed check digit succeeds, in each of the three implementations.
C3_SelfCheckValid ==
    (rutImpl # "none" /\ IsDigitStr(rutInput) /\ IsRutLength(rutInput)) => rutOk = TRUE

\* a validator ran on an 8-digit string whose check digit is the letter K
C3_Witness ==
    /\ rutImpl = "santander"
    /\ Len(rutInput) = RutMaxLen
    /\ rutCalc = <<"K">>
    /\ rutOk = TRUE

\* The modulo-11 rule as the specification states it: the k-th digit from the
\* right (k = 0, 1, ...) has weight 2 + (k mod 6).
RECURSIVE SpecWeighted(_, _)
SpecWeighted(s, k) ==
    IF s = <<>> THEN 0
    ELSE DigitVal(s[Len(s)]) * (2 + (k % 6)) + SpecWeighted(SubSeq(s, 1, Len(s) - 1), k + 1)

SpecCheckChar(s) ==
    LET r == 11 - (SpecWeighted(s, 0) % 11)
    IN  CASE r = 11 -> <<"0">>
          [] r = 10 -> <<"K">>
          [] OTHER  -> <<DigitChar(r)>>

Rut4499116 == <<"4", "4", "9", "9", "1", "1", "6">>

\* C4: computeCheckDigit on a digit string returns the modulo-11 check
\* character ('0' for r = 11, 'K' for r = 10, the digit r otherwise); the check
\* digit of "4499116" is "0" and validate("4499116", "0") is true.
C4_Mod11CheckDigit ==
    (rutImpl # "none" /\ IsDigitStr(rutInput)) =>
        /\ rutCalc = SpecCheckChar(rutInput)
        /\ (rutInput = Rut4499116 => (rutCalc = <<"0">> /\ rutOk = TRUE))

\* the check digit of 4499116 has been computed by process_itau_auto_v2
C4_Witness ==
    /\ rutImpl = "auto"
    /\ rutInput = Rut4499116
    /\ rutCalc = <<"0">>

-----------------------------------------------------------------------------
(* Candidate Scorer: find_all_ruts and choose_rut_for_doc of               *)
(* process_itau_unified_v1.py and process_santander_unified_v1.py.         *)
(*                                                                         *)
(* A page text is a sequence of segments, each standing for a literal      *)
(* piece of text; offsets and lengths are in characters:                   *)
(*   BANK  "Representado por Banco X, "                                    *)
(*   SUS   "Suscriptor: Juan Perez, "                                      *)
(*   FILL  "texto " twenty times                                           *)
(*   OPER  "N° Operación pendiente, "                                      *)
(*   RUT   <label><number>-<dv>", " with the labels                        *)
(*           CI   "C.I/RUT N°: "             number written 12.345.678     *)
(*           LBL  "RUT "                     number written 12.345.678     *)
(*           CED  "Cédula de Identidad "     number written 12345678       *)
(*           CEDN "Cedula de Identidad N°: " number written 12.345.678     *)
(* The number is the debtor's (12.345.678-5) or the institution's own.     *)

ItauRut == <<"9", "7", "0", "2", "3", "0", "0", "0">>
ItauDv  == <<"9">>
INSTITUTIONAL_RUTS == {<<"9", "7", "0", "3", "6", "0", "0", "0">>}
SantanderDv == <<"K">>
DebtorRut == <<"1", "2", "3", "4", "5", "6", "7", "8">>
DebtorDv  == <<"5">>

RutLabels == {"CI", "LBL", "CED", "CEDN"}
RutOwners == {"DEBTOR", "ITAU", "SANT"}

Seg(kind, label, who) == [kind |-> kind, label |-> label, who |-> who]
PlainSegs == {Seg(k, "-", "-") : k \in {"BANK", "SUS", "FILL", "OPER"}}
RutSegs(owners) == {Seg("RUT", l, w) : l \in RutLabels, w \in owners}

LabelLen(label) ==
    CASE label = "CI" -> 12 [] label = "LBL" -> 4 [] label = "CED" -> 20 [] label = "CEDN" -> 24

\* the number as written: with dots (10 characters) or without (8)
NumberLen(label) == IF label = "CED" THEN 8 ELSE 10

SegLen(seg) ==
    CASE seg.kind = "BANK" -> 26
      [] seg.kind = "SUS"  -> 24
      [] seg.kind = "FILL" -> 120
      [] seg.kind = "OPER" -> 24
      [] seg.kind = "RUT"  -> LabelLen(seg.label) + NumberLen(seg.label) + 4

SegRut(seg) ==
    CASE seg.who = "DEBTOR" -> DebtorRut
      [] seg.who = "ITAU"   -> ItauRut
      [] seg.who = "SANT"   -> CHOOSE r \in INSTITUTIONAL_RUTS : TRUE

SegDv(seg) ==
    CASE seg.who = "DEBTOR" -> DebtorDv
      [] seg.who = "ITAU"   -> ItauDv
      [] seg.who = "SANT"   -> SantanderDv

\* Words the scorers look for in a candidate's context, as (class, offset in the
\* segment, length): "bank" \bBanco\b | Representado por, "banco" BANCO,
\* "cedula" the literal "Cédula de Identidad", "cirut" C\.I[\/\\]RUT\s+N[°º],
\* "oper" Operaci[oó]n|Producto.
Keywords(seg) ==
    CASE seg.kind = "BANK" -> {<<"bank", 0, 16>>, <<"bank", 17, 5>>, <<"banco", 17, 5>>}
      [] seg.kind = "OPER" -> {<<"oper", 3, 9>>}
      [] seg.kind = "RUT" /\ seg.label = "CED" -> {<<"cedula", 0, 19>>}
      [] seg.kind = "RUT" /\ seg.label = "CI"  -> {<<"cirut", 0, 10>>}
      [] OTHER -> {}

\* The (pattern, base) list of find_all_ruts, by base weight in list order
ItauPatternBases == <<20, 19, 18, 17, 16, 15, 12, 10, 3, 2>>
SantanderPatternBases == <<12, 10, 8, 3, 2>>

\* Which patterns (named by their base) match a RUT segment; group 1 always
\* starts right after the label.
ItauMatches(seg) ==
    IF seg.kind # "RUT" THEN {}
    ELSE CASE seg.label = "CI"   -> {18, 17, 15, 10, 3}
           [] seg.label = "LBL"  -> {10, 3}
           [] seg.label = "CED"  -> {2}
           [] seg.label = "CEDN" -> {12, 3}

SantanderMatches(seg) ==
    IF seg.kind # "RUT" THEN {}
    ELSE CASE seg.label = "CI"   -> {10, 3}
           [] seg.label = "LBL"  -> {10, 3}
           [] seg.label = "CED"  -> {2}
           [] seg.label = "CEDN" -> {12, 3}

RECURSIVE TextLen(_)
TextLen(layout) == IF layout = <<>> THEN 0 ELSE SegLen(Head(layout)) + TextLen(Tail(layout))

SegStart(layout, i) == TextLen(SubSeq(layout, 1, i - 1))

Max(a, b) == IF a >= b THEN a ELSE b
Min(a, b) == IF a <= b THEN a ELSE b
Abs(a) == IF a >= 0 THEN a ELSE -a

\* ctx = text[max(0, start-80) : start+120] contains a word of class cls
CtxHas(layout, start, cls) ==
    LET lo == Max(0, start - 80)
        hi == Min(TextLen(layout), start + 120)
    IN  \E i \in 1..Len(layout) : \E kw \in Keywords(layout[i]) :
            /\ kw[1] = cls
            /\ SegStart(layout, i) + kw[2] >= lo
            /\ SegStart(layout, i) + kw[2] + kw[3] <= hi

\* One candidate tuple (start, rut, dv, ctx, base); ctx is kept as its start
Candidate(layout, i, base) ==
    [pos  |-> SegStart(layout, i) + LabelLen(layout[i].label),
     rut  |-> SegRut(layout[i]),
     dv   |-> SegDv(layout[i]),
     base |-> base]

\* the matches of one pattern, in text order (re.finditer); the generic
\* patterns (base 3 and 2) skip a match with Operación/Producto in its context
RECURSIVE PatternMatches(_, _, _, _)
PatternMatches(layout, base, i, bank) ==
    IF i > Len(layout) THEN <<>>
    ELSE LET hit  == base \in (IF bank = "itau" THEN ItauMatches(layout[i])
                                                  ELSE SantanderMatches(layout[i]))
             cand == Candidate(layout, i, base)
             skip == base \in {3, 2} /\ CtxHas(layout, cand.pos, "oper")
         IN  (IF hit /\ ~skip THEN <<cand>> ELSE <<>>)
                 \o PatternMatches(layout, base, i + 1, bank)

RECURSIVE AllPatterns(_, _, _)
AllPatterns(layout, bases, bank) ==
    IF bases = <<>> THEN <<>>
    ELSE PatternMatches(layout, Head(bases), 1, bank) \o AllPatterns(layout, Tail(bases), bank)

\* process_itau_unified_v1.find_all_ruts
find_all_ruts(layout) == AllPatterns(layout, ItauPatternBases, "itau")

\* process_santander_unified_v1.find_all_ruts
santander_find_all_ruts(layout) == AllPatterns(layout, SantanderPatternBases, "santander")

\* sus.start() of the first Suscriptor/Deudor label, or -1 for None
SusPos(layout) ==
    IF \E i \in 1..Len(layout) : layout[i].kind = "SUS"
    THEN SegStart(layout, CHOOSE i \in 1..Len(layout) :
                      /\ layout[i].kind = "SUS"
                      /\ \A j \in 1..(i - 1) : layout[j].kind # "SUS")
    ELSE -1

Proximity(layout, pos) ==
    IF SusPos(layout) = -1 THEN 0
    ELSE Max(0, 300 - Abs(pos - SusPos(layout))) \div 10

\* the score choose_rut_for_doc (Itaú) gives one candidate
ItauScore(layout, c, doc_type) ==
    c.base
    + (IF CtxHas(layout, c.pos, "bank") THEN -50 ELSE 0)
    + (IF doc_type = "PP"
       THEN (IF c.base >= 15 THEN 25 ELSE 0)
            + (IF CtxHas(layout, c.pos, "clrut") THEN 30 ELSE 0)
            + Proximity(layout, c.pos)
            + (IF CtxHas(layout, c.pos, "cirut") THEN 20 ELSE 0)
       ELSE (IF CtxHas(layout, c.pos, "cedula") THEN 10 ELSE 0))
    + (IF Len(c.rut) >= RutMinLen /\ Len(c.rut) <= RutMaxLen THEN 2 ELSE 0)

ItauExcluded(c) == c.rut = ItauRut /\ c.dv = ItauDv

\* the loop of choose_rut_for_doc: best starts as None with best_score -1,
\* and a candidate replaces it only with a strictly greater score
RECURSIVE ItauLoop(_, _, _, _, _)
ItauLoop(layout, ruts, doc_type, best, best_score) ==
    IF ruts = <<>> THEN best
    ELSE LET c == Head(ruts)
             score == ItauScore(layout, c, doc_type)
         IN  IF ItauExcluded(c)
             THEN ItauLoop(layout, Tail(ruts), doc_type, best, best_score)
             ELSE IF score > best_score
                  THEN ItauLoop(layout, Tail(ruts), doc_type, <<c.rut, c.dv>>, score)
                  ELSE ItauLoop(layout, Tail(ruts), doc_type, best, best_score)

\* process_itau_unified_v1.choose_rut_for_doc
choose_rut_for_doc(layout, ruts, doc_type) ==
    IF ruts = <<>> THEN NoRut ELSE ItauLoop(layout, ruts, doc_type, NoRut, -1)

\* the score choose_rut_for_doc (Santander) gives one candidate
SantanderScore(layout, c, doc_type) ==
    c.base
    + (IF c.rut \in INSTITUTIONAL_RUTS THEN -20 ELSE 0)
    + (IF is_valid_rut(c.rut, c.dv) THEN 5 ELSE 0)
    + (IF CtxHas(layout, c.pos, "banco") THEN -10 ELSE 0)
    + (IF doc_type = "PP" THEN Proximity(layout, c.pos) ELSE 0)
    + (IF Len(c.rut) >= RutMinLen /\ Len(c.rut) <= RutMaxLen THEN 2 ELSE 0)

RECURSIVE SantanderLoop(_, _, _, _, _)
SantanderLoop(layout, ruts, doc_type, best, best_score) ==
    IF ruts = <<>> THEN best
    ELSE LET c == Head(ruts)
             score == SantanderScore(layout, c, doc_type)
         IN  IF score > best_score
             THEN SantanderLoop(layout, Tail(ruts), doc_type, <<c.rut, c.dv>>, score)
             ELSE SantanderLoop(layout, Tail(ruts), doc_type, best, best_score)

\* process_santander_unified_v1.choose_rut_for_doc
santander_choose_rut_for_doc(layout, ruts, doc_type) ==
    IF ruts = <<>> THEN NoRut ELSE SantanderLoop(layout, ruts, doc_type, NoRut, -1)

MaxSegs == 4
ScLayouts == SeqsUpTo(PlainSegs \cup RutSegs({"DEBTOR", "ITAU"}), MaxSegs)
                 \cup SeqsUpTo(PlainSegs \cup RutSegs({"DEBTOR", "SANT"}), MaxSegs)

InitScorer ==
    /\ scLayout \in ScLayouts
    /\ scDocType \in {"PP", "CC"}
    /\ scBank = "none"
    /\ scChosen = NoRut
    /\ IdleBut("scorer")

\* rut, dv = choose_rut_for_doc(text, ruts, doc_type) if ruts else ("","")
ScoreItau ==
    /\ scBank = "none"
    /\ scBank' = "itau"
    /\ scChosen' = choose_rut_for_doc(scLayout, find_all_ruts(scLayout), scDocType)
    /\ UNCHANGED <<scLayout, scDocType, notScorer>>

ScoreSantander ==
    /\ scBank = "none"
    /\ scBank' = "santander"
    /\ scChosen' = santander_choose_rut_for_doc(scLayout, santander_find_all_ruts(scLayout), scDocType)
    /\ UNCHANGED <<scLayout, scDocType, notScorer>>

NextScorer == ScoreItau \/ ScoreSantander

SpecScorer == InitScorer /\ [][NextScorer]_vars

-----------------------------------------------------------------------------
(* Reference/Debug Reconciler: parse_debug_final_rows, merge_from_debug,   *)
(* clean_and_normalize_row and the row loop of process()                   *)
(* (process_itau_auto_v2.py).                                              *)
(*                                                                         *)
(* A row is a function from column names to strings; a column the row does *)
(* not have reads as "" (row.get(name, "")).  The model carries the        *)
(* columns the merge reads or writes.                                      *)

\* constants.CANONICAL_HEADERS
CANONICAL_HEADERS ==
    <<"OPERACION_1", "RUT", "DV", "NOMBRE", "DIRECCION", "COMUNA",
      "FECHA_SUSCRIPCION_1", "MONTO_CREDITO_1", "CUOTAS_1", "TASA_1", "MONTO_CUOTA_1",
      "MONTO_ULTIMA_CUOTA_1", "FECHA_VENCIMIENTO_1a_CUOTA_1",
      "FECHA_VENCIMIENTO_ULTIMA_CUOTA_1", "CUOTA_MOROSA_1", "FECHA_CUOTA_MOROSA_1",
      "CAPITAL_1", "EXHORTO", "SUCURSAL", "PRODUCTO", "NOMBRE_APODERADO",
      "NOMBRE_APODERADO_2">>

\* the pairs list of merge_from_debug; both names of a pair are the same
MergePairs ==
    <<"NOMBRE", "DIRECCION", "COMUNA", "FECHA_SUSCRIPCION", "MONTO_CREDITO",
      "FECHA_VENCIMIENTO_1_CUOTA", "FECHA_VENCIMIENTO_ULTIMA_CUOTA", "CAPITAL",
      "PRODUCTO", "NOMBRE_APODERADO", "NOMBRE_APODERADO_2">>

SeqToSet(s) == {s[i] : i \in 1..Len(s)}

MergeFields == SeqToSet(MergePairs)
RowFields == {"OPERACION", "RUT", "DV"} \cup MergeFields

\* the columns of the model's rows that process() writes out
OutFields == RowFields \cap SeqToSet(CANONICAL_HEADERS)

\* apply_common_fixes on cleaned text: of COMMON_FIXES, the typographic
\* dashes are what is left to replace in the model's characters
apply_common_fixes(value) ==
    [i \in 1..Len(value) |-> IF value[i] \in {"NDASH", "MDASH"} THEN "-" ELSE value[i]]

\* str.title(): a cased character after a cased one is lowered, else raised
Cased == {"a", "b", "k", "x", "y", "A", "B", "K", "X", "Y"}
Title(s) ==
    [i \in 1..Len(s) |->
        IF i > 1 /\ s[i - 1] \in Cased THEN LowerChar(s[i]) ELSE UpperChar(s[i])]

\* the default names, each carried as one token
DefaultApoderado(which) ==
    IF which = 1 THEN <<"Apoderado Principal">> ELSE <<"Apoderado Suplente">>

\* APODERADO_PATTERNS[0], apoderado\s*[:\-]?\s*([^,\n]+) without case: group 1
\* for the two default names, <<>> for a value without the word
ApoderadoPatternGroup(v) ==
    IF v = DefaultApoderado(1) THEN <<"Principal">>
    ELSE IF v = DefaultApoderado(2) THEN <<"Suplente">>
    ELSE <<>>

\* clean_apoderado for values that hold no known RUT and, the default names
\* apart, no role keyword
clean_apoderado(value, which) ==
    LET v == clean_text_value(value)
    IN  IF v = <<>> THEN DefaultApoderado(which)
        ELSE IF ApoderadoPatternGroup(v) # <<>> THEN ApoderadoPatternGroup(v)
        ELSE Title(v)

\* clean_and_normalize_row on the model's columns
clean_and_normalize_row(row, strict_dv) ==
    LET cleaned == [f \in DOMAIN row |-> clean_text_value(row[f])]
        fixed   == [f \in DOMAIN row |->
                       IF f \in {"NOMBRE", "DIRECCION", "COMUNA"}
                       THEN apply_common_fixes(cleaned[f]) ELSE cleaned[f]]
        n       == normalize_rut_and_dv(fixed["RUT"], fixed["DV"])
    IN  [f \in DOMAIN row |->
            CASE f = "NOMBRE_APODERADO"   -> clean_apoderado(fixed[f], 1)
              [] f = "NOMBRE_APODERADO_2" -> clean_apoderado(fixed[f], 2)
              [] f = "RUT" -> n[1]
              [] f = "DV"  -> IF n[1] # <<>> /\ n[2] # <<>> /\ ~n[4] /\ strict_dv /\ n[3] # <<>>
                              THEN n[3] ELSE n[2]
              [] OTHER -> fixed[f]]

\* str.strip("-")
RECURSIVE LStripDash(_)
LStripDash(s) == IF s # <<>> /\ Head(s) = "-" THEN LStripDash(Tail(s)) ELSE s
StripDash(s) == Reverse(LStripDash(Reverse(LStripDash(s))))

\* f"{RUT}-{DV}-{NOMBRE}"
CompositeKey(r) == r["RUT"] \o <<"-">> \o r["DV"] \o <<"-">> \o r["NOMBRE"]

MapPut(m, k, v) == [x \in (DOMAIN m) \cup {k} |-> IF x = k THEN v ELSE m[x]]

\* parse_debug_final_rows: every value is cleaned; the entry is filed under
\* its OPERACION or, without one, under the RUT-DV-NOMBRE key
RECURSIVE parse_debug_final_rows(_, _)
parse_debug_final_rows(blocks, mapping) ==
    IF blocks = <<>> THEN mapping
    ELSE LET norm == [f \in DOMAIN Head(blocks) |-> clean_text_value(Head(blocks)[f])]
             op   == Strip(norm["OPERACION"])
             rk   == CompositeKey(norm)
         IN  parse_debug_final_rows(Tail(blocks),
                 IF op # <<>> THEN MapPut(mapping, op, norm)
                 ELSE IF StripDash(rk) # <<>> THEN MapPut(mapping, rk, norm)
                 ELSE mapping)

\* the key lookup of merge_from_debug: the entry found, or <<>> for None
MergeCand(row, debug_map) ==
    LET k1 == Strip(row["OPERACION"])
        k2 == StripDash(CompositeKey(row))
    IN  IF k1 # <<>> /\ k1 \in DOMAIN debug_map THEN debug_map[k1]
        ELSE IF k2 # <<>> /\ k2 \in DOMAIN debug_map THEN debug_map[k2]
        ELSE <<>>

\* merge_from_debug returns the row untouched, and counts nothing
MergeSkipped(debug_map, mode) == mode = "none" \/ DOMAIN debug_map = {}

\* the field test of merge_from_debug with only_blanks filling every field
\* that has a trace value
MergeAssigns_fill_all(row, cand, mode, f) ==
    LET v_csv == clean_text_value(row[f])
        v_dbg == clean_text_value(cand[f])
    IN  \/ mode = "only_blanks" /\ v_dbg # <<>>
        \/ mode = "prefer_debug" /\ v_dbg # <<>> /\ v_dbg # v_csv

\* the field test of merge_from_debug with prefer_debug filling blanks only
MergeAssigns_blanks_only(row, cand, mode, f) ==
    LET v_csv == clean_text_value(row[f])
        v_dbg == clean_text_value(cand[f])
    IN  \/ mode = "only_blanks" /\ v_csv = <<>> /\ v_dbg # <<>>
        \/ mode = "prefer_debug" /\ v_csv = <<>> /\ v_dbg # <<>>

\* the field test of merge_from_debug: does the loop assign row[f_csv]?
MergeAssigns(row, cand, mode, f) ==
    LET v_csv == clean_text_value(row[f])
        v_dbg == clean_text_value(cand[f])
    IN  \/ mode = "only_blanks" /\ v_csv = <<>> /\ v_dbg # <<>>
        \/ mode = "prefer_debug" /\ v_dbg # <<>> /\ v_dbg # v_csv

\* merge_from_debug: the row it returns
merge_from_debug(row, debug_map, mode) ==
    LET cand == MergeCand(row, debug_map)
    IN  IF MergeSkipped(debug_map, mode) \/ cand = <<>> THEN row
        ELSE [f \in DOMAIN row |->
                 IF f \in MergeFields /\ MergeAssigns(row, cand, mode, f)
                 THEN clean_text_value(cand[f]) ELSE row[f]]

\* merge_from_debug: stats after the call
MergeStats(row, debug_map, mode, stats) ==
    IF MergeSkipped(debug_map, mode) THEN stats
    ELSE IF MergeCand(row, debug_map) = <<>>
         THEN [stats EXCEPT !.debug_merge_misses = @ + 1]
         ELSE [stats EXCEPT !.debug_merge_hits = @ + 1]

\* merge_from_debug: stats_fill after the call
MergeFill(row, debug_map, mode, fill) ==
    LET cand == MergeCand(row, debug_map)
        hit  == {f \in MergeFields : MergeAssigns(row, cand, mode, f)}
    IN  IF MergeSkipped(debug_map, mode) \/ cand = <<>> THEN fill
        ELSE [f \in (DOMAIN fill) \cup hit |->
                 (IF f \in DOMAIN fill THEN fill[f] ELSE 0) + (IF f \in hit THEN 1 ELSE 0)]

\* Rows and trace blocks of the model: the identity is one valid RUT, and the
\* values of three mergeable columns range over texts the normalizer treats
\* differently (a lone quote cleans to "", ZWSP between a letter and its
\* combining accent cleans to a text that is cleaned once more by the merge).
MgRut == <<"1">>
MgDv  == <<"9">>
MgOperaciones == {<<>>, <<"7">>}
MgNombres == {<<>>, <<"x">>, <<"y">>, <<"QUOTE">>, <<"a", "ZWSP", "ACUTE">>}
MgFechas == {<<>>, <<"x">>, <<"y">>}
MgApoderados == {<<>>, <<"x">>}

MgRow(op, nombre, fecha, apoderado) ==
    [f \in RowFields |->
        CASE f = "OPERACION" -> op
          [] f = "RUT" -> MgRut
          [] f = "DV" -> MgDv
          [] f = "NOMBRE" -> nombre
          [] f = "FECHA_SUSCRIPCION" -> fecha
          [] f = "NOMBRE_APODERADO" -> apoderado
          [] OTHER -> <<>>]

MgRows ==
    {MgRow(op, n, d, a) : op \in MgOperaciones, n \in MgNombres, d \in MgFechas, a \in MgApoderados}

InitMerge ==
    /\ mgTrace \in {<<>>} \cup {<<b>> : b \in MgRows}
    /\ mgMode \in {"none", "only_blanks", "prefer_debug"}
    /\ mgRaw \in MgRows
    /\ mgDebugMap = <<>>
    /\ mgRow = <<>>
    /\ mgPc = "start"
    /\ mgStats = [debug_merge_hits |-> 0, debug_merge_misses |-> 0]
    /\ mgFill = <<>>
    /\ mgOut = <<>>
    /\ IdleBut("merge")

\* process(): debug_map = parse_debug_final_rows(f.read())
LoadDebug ==
    /\ mgPc = "start"
    /\ mgDebugMap' = parse_debug_final_rows(mgTrace, <<>>)
    /\ mgPc' = "loaded"
    /\ UNCHANGED <<mgTrace, mgMode, mgRaw, mgRow, mgStats, mgFill, mgOut, notMerge>>

\* process(): the reader's row, its headers normalized (the model's column
\* names are no aliases), then clean_and_normalize_row
CleanRow ==
    /\ mgPc = "loaded"
    /\ mgRow' = clean_and_normalize_row(mgRaw, FALSE)
    /\ mgPc' = "cleaned"
    /\ UNCHANGED <<mgTrace, mgMode, mgRaw, mgDebugMap, mgStats, mgFill, mgOut, notMerge>>

\* process(): row = merge_from_debug(row, debug_map, fill_from_debug, stats_fill, stats)
MergeRow ==
    /\ mgPc = "cleaned"
    /\ mgRow' = merge_from_debug(mgRow, mgDebugMap, mgMode)
    /\ mgStats' = MergeStats(mgRow, mgDebugMap, mgMode, mgStats)
    /\ mgFill' = MergeFill(mgRow, mgDebugMap, mgMode, mgFill)
    /\ mgPc' = "merged"
    /\ UNCHANGED <<mgTrace, mgMode, mgRaw, mgDebugMap, mgOut, notMerge>>

\* process(): no required fields; the row's canonical columns are appended
AppendRow ==
    /\ mgPc = "merged"
    /\ mgOut' = Append(mgOut, [h \in OutFields |-> mgRow[h]])
    /\ mgPc' = "appended"
    /\ UNCHANGED <<mgTrace, mgMode, mgRaw, mgDebugMap, mgRow, mgStats, mgFill, notMerge>>

NextMerge == LoadDebug \/ CleanRow \/ MergeRow \/ AppendRow

SpecMerge == InitMerge /\ [][NextMerge]_vars


-----------------------------------------------------------------------------
(* Batch Orchestrator: main and process_pdf_files of                       *)
(* process_itau_unified_v1.py, OCRToCSV.process_all_pdfs of ocr_to_csv.py, *)
(* and apply_reference_corrections of geocoding_utils.py.                  *)
(*                                                                         *)
(* Cell values are whole strings here.  A document is named by the stem of *)
(* its file name, a group of digits (so the stem is also the operation id  *)
(* extract_operation_from_filename derives), and carries what happens when *)
(* it is processed:                                                        *)
(*   "ok"       pages are rasterized and a record is assembled             *)
(*   "nopages"  convert_pdf_to_images / pdf_to_images yields no image      *)
(*   "raises"   an exception escapes inside the loop body                  *)
(*   "missing"  the path handed to process_pdf_files does not exist        *)
(* textOp is the operation number the page text shows ("" for none) and    *)
(* docType what detect_document_type answers.                              *)

UNIFIED_COLUMNS ==
    <<"OPERACION_1", "RUT", "DV", "NOMBRE", "DIRECCION", "COMUNA",
      "FECHA_SUSCRIPCION_1", "MONTO_CREDITO_1", "CUOTAS_1", "TASA_1", "MONTO_CUOTA_1",
      "MONTO_ULTIMA_CUOTA_1", "FECHA_VENCIMIENTO_1_CUOTA_1",
      "FECHA_VENCIMIENTO_ULTIMA_CUOTA_1", "CUOTA_MOROSA_1", "FECHA_CUOTA_MOROSA_1",
      "CAPITAL_1", "EXHORTO", "SUCURSAL", "PRODUCTO", "NOMBRE_APODERADO",
      "NOMBRE_APODERADO_2">>

\* the headers of OCRToCSV.write_csv
CsvHeaders ==
    <<"OPERACION", "RUT", "DV", "NOMBRE", "DIRECCION", "COMUNA",
      "FECHA_SUSCRIPCION", "MONTO_CREDITO", "CUOTAS", "TASA", "MONTO_CUOTA",
      "MONTO_ULTIMA_CUOTA", "FECHA_VENCIMIENTO_1_CUOTA", "FECHA_VENCIMIENTO_ULTIMA_CUOTA",
      "CUOTA_MOROSA", "FECHA_CUOTA_MOROSA", "CAPITAL", "PRODUCTO", "NOMBRE_APODERADO",
      "NOMBRE_APODERADO_2">>

\* geocoding_utils.REFERENCE_DATA (the U of PINGUINOS carries a diaeresis)
REFERENCE_DATA ==
    [k \in {"4191896500082450", "60247566"} |->
        IF k = "4191896500082450"
        THEN [RUT |-> "4499116", DV |-> "0",
              NOMBRE |-> "FERNANDO SEGUNDO FERNANDEZ CAMPOS",
              DIRECCION |-> "LORENZO ACEITON 2185", COMUNA |-> "TEMUCO",
              FECHA_SUSCRIPCION_1 |-> "25-09-2025", MONTO_CREDITO_1 |-> "5713357",
              PRODUCTO |-> "PP"]
        ELSE [RUT |-> "15657067", DV |-> "2",
              NOMBRE |-> "MIGUEL ALEJANDRO ROA GARCIA",
              DIRECCION |-> "LOS PINGUINOS 0447", COMUNA |-> "TEMUCO",
              FECHA_SUSCRIPCION_1 |-> "29-05-2023", MONTO_CREDITO_1 |-> "21481761",
              CUOTAS_1 |-> "60", TASA_1 |-> "1.62%", MONTO_CUOTA_1 |-> "566331",
              PRODUCTO |-> "CC"]]

\* a correction that would also blank the columns the reference entry lacks
CorrectRow_whole_row(row) ==
    LET operacion == row["OPERACION_1"]
    IN  IF operacion \in DOMAIN REFERENCE_DATA
        THEN [c \in DOMAIN row |->
                 IF c \in DOMAIN REFERENCE_DATA[operacion]
                 THEN REFERENCE_DATA[operacion][c]
                 ELSE IF c = "OPERACION_1" THEN row[c] ELSE ""]
        ELSE row

\* apply_reference_corrections on one row
CorrectRow(row) ==
    LET operacion == row["OPERACION_1"]
    IN  IF operacion \in DOMAIN REFERENCE_DATA
        THEN [c \in DOMAIN row |->
                 IF c \in DOMAIN REFERENCE_DATA[operacion]
                 THEN REFERENCE_DATA[operacion][c] ELSE row[c]]
        ELSE row

\* geocoding_utils.apply_reference_corrections
apply_reference_corrections(rows) == [i \in 1..Len(rows) |-> CorrectRow(rows[i])]

\* the columns of a unified row that no extraction fills
UnifiedBlank == {"CUOTAS_1", "TASA_1", "MONTO_CUOTA_1", "MONTO_ULTIMA_CUOTA_1",
                 "CUOTA_MOROSA_1", "FECHA_CUOTA_MOROSA_1"}

\* process_document_unified: the record of a document of the given pages;
\* found is what each extractor returns ("" when the pages show nothing)
UnifiedRow(doc, found, doc_type) ==
    [c \in SeqToSet(UNIFIED_COLUMNS) |->
        CASE c = "OPERACION_1" -> IF doc.textOp # "" THEN doc.textOp ELSE doc.file
          [] c = "EXHORTO" -> "TEMUCO"
          [] c = "SUCURSAL" -> "SANTIAGO"
          [] c = "PRODUCTO" -> doc_type
          [] c \in UnifiedBlank -> ""
          [] OTHER -> found]

\* OCRToCSV.create_csv_row / create_empty_row
CsvRow(doc, found, producto) ==
    [c \in SeqToSet(CsvHeaders) |->
        CASE c = "OPERACION" -> IF doc.textOp # "" THEN doc.textOp ELSE doc.file
          [] c = "PRODUCTO" -> producto
          [] c = "NOMBRE_APODERADO" -> "YASNA DEL CARMEN OLAVE MARTINEZ"
          [] c = "NOMBRE_APODERADO_2" -> "ERWIN ORLANDO ALIAGA MARILLAN"
          [] c \in {"CUOTA_MOROSA", "FECHA_CUOTA_MOROSA"} -> ""
          [] OTHER -> found]

MaxDocs == 2
BtFiles == {"60247566", "860418"}
BtTextOps == {"", "4191896500082450"}

BtDocKinds ==
    {[file |-> f, outcome |-> "ok", textOp |-> t, docType |-> d] :
        f \in BtFiles, t \in BtTextOps, d \in {"PP", "CC"}}
    \cup {[file |-> f, outcome |-> o, textOp |-> "", docType |-> "CC"] :
        f \in BtFiles, o \in {"nopages", "raises", "missing"}}

\* main and process_all_pdfs list the files of a folder: they all exist
InitBatch ==
    /\ btEntry \in {"main", "api", "csv"}
    /\ btGeocode \in BOOLEAN
    /\ btGeoUtils \in BOOLEAN
    /\ btTesseract \in BOOLEAN
    /\ btEntry = "csv" => (~btGeocode /\ ~btGeoUtils /\ btTesseract)
    /\ btDocs \in SeqsUpTo(BtDocKinds, MaxDocs)
    /\ btEntry # "api" => \A i \in 1..Len(btDocs) : btDocs[i].outcome # "missing"
    /\ btNext = 1
    /\ btRows = <<>>
    /\ btOutput = [written |-> FALSE, rows |-> <<>>]
    /\ btPc = "start"
    /\ IdleBut("batch")

BtFrame == UNCHANGED <<btEntry, btGeocode, btGeoUtils, btTesseract, btDocs, notBatch>>

\* main returns, process_pdf_files raises, when Tesseract is not available
BatchNoTesseract ==
    /\ btPc = "start" /\ btEntry \in {"main", "api"} /\ ~btTesseract
    /\ btPc' = IF btEntry = "main" THEN "returned" ELSE "raised"
    /\ UNCHANGED <<btNext, btRows, btOutput>>
    /\ BtFrame

\* main returns, process_all_pdfs exits, when the folder holds no PDF
BatchNoPdfs ==
    /\ btPc = "start" /\ btEntry \in {"main", "csv"} /\ btTesseract /\ btDocs = <<>>
    /\ btPc' = IF btEntry = "main" THEN "returned" ELSE "exited"
    /\ UNCHANGED <<btNext, btRows, btOutput>>
    /\ BtFrame

BatchStart ==
    /\ btPc = "start" /\ btTesseract
    /\ btEntry = "api" \/ btDocs # <<>>
    /\ btPc' = "loop"
    /\ UNCHANGED <<btNext, btRows, btOutput>>
    /\ BtFrame

BtDoc == btDocs[btNext]
BtInLoop == btPc = "loop" /\ btNext <= Len(btDocs)

\* process_pdf_files: if not pdf_path.exists(): continue
DocMissing ==
    /\ BtInLoop /\ BtDoc.outcome = "missing"
    /\ btNext' = btNext + 1
    /\ UNCHANGED <<btRows, btOutput, btPc>>
    /\ BtFrame

\* no page image: main continues with the next PDF, process_pdf_files
\* assembles the record of an empty page list (classified CC),
\* process_all_pdfs appends create_empty_row
DocNoPages ==
    /\ BtInLoop /\ BtDoc.outcome = "nopages"
    /\ btRows' = CASE btEntry = "main" -> btRows
                   [] btEntry = "api"  -> Append(btRows, UnifiedRow(BtDoc, "", "CC"))
                   [] btEntry = "csv"  -> Append(btRows, CsvRow(BtDoc, "", "CREDITO CONSUMO"))
    /\ btNext' = btNext + 1
    /\ UNCHANGED <<btOutput, btPc>>
    /\ BtFrame

\* an exception inside the loop body: main and process_pdf_files log it,
\* process_all_pdfs appends create_empty_row
DocRaises ==
    /\ BtInLoop /\ BtDoc.outcome = "raises"
    /\ btRows' = IF btEntry = "csv" THEN Append(btRows, CsvRow(BtDoc, "", "CREDITO CONSUMO"))
                 ELSE btRows
    /\ btNext' = btNext + 1
    /\ UNCHANGED <<btOutput, btPc>>
    /\ BtFrame

DocProcessed ==
    /\ BtInLoop /\ BtDoc.outcome = "ok"
    /\ btRows' = IF btEntry = "csv" THEN Append(btRows, CsvRow(BtDoc, "ocr", BtDoc.docType))
                 ELSE Append(btRows, UnifiedRow(BtDoc, "ocr", BtDoc.docType))
    /\ btNext' = btNext + 1
    /\ UNCHANGED <<btOutput, btPc>>
    /\ BtFrame

\* after the loop: main writes nothing without rows and corrects the rows
\* if GEO_UTILS_AVAILABLE; process_pdf_files writes an empty table without
\* rows and corrects them if GEO_UTILS_AVAILABLE and geocode; write_csv
\* writes the rows
BatchFinish ==
    /\ btPc = "loop" /\ btNext > Len(btDocs)
    /\ btOutput' =
          CASE btEntry = "main" ->
                  IF btRows = <<>> THEN [written |-> FALSE, rows |-> <<>>]
                  ELSE [written |-> TRUE,
                        rows |-> IF btGeoUtils THEN apply_reference_corrections(btRows)
                                 ELSE btRows]
            [] btEntry = "api" ->
                  [written |-> TRUE,
                   rows |-> IF btRows # <<>> /\ btGeoUtils /\ btGeocode
                            THEN apply_reference_corrections(btRows) ELSE btRows]
            [] btEntry = "csv" -> [written |-> TRUE, rows |-> btRows]
    /\ btPc' = "done"
    /\ UNCHANGED <<btNext, btRows>>
    /\ BtFrame

NextBatch ==
    \/ BatchNoTesseract \/ BatchNoPdfs \/ BatchStart
    \/ DocMissing \/ DocNoPages \/ DocRaises \/ DocProcessed
    \/ BatchFinish

SpecBatch == InitBatch /\ [][NextBatch]_vars

-----------------------------------------------------------------------------
(* Row Assembler: process_pagare and process_credito_consumo (Itau) and    *)
(* process_document_unified (Santander).                                   *)
(*                                                                         *)
(* A Python value is carried with its type name, so that a string, a       *)
(* number and None are told apart.  A page text is one of eight sample     *)
(* pages; every extractor is given by what its regular expressions find    *)
(* on each of them:                                                        *)
(*   EMPTY  ""                                                             *)
(*   FRONT  "PAGARE / N° Operación: 4191896500082450 / Suscriptor: Juan    *)
(*          Pena Soto / C.I/RUT N°: 12.345.678-5 / Domicilio: Los Robles   *)
(*          123, Nunoa / En Santiago, a 12 de marzo de 2020 / Debo y       *)
(*          pagare la suma de $ 1.234.567"                                 *)
(*   IDENT  "Cliente / deudor: Maria Munoz Diaz / Nombre y Apellidos del   *)
(*          deudor: Maria Munoz Diaz / Cédula de Identidad N°:             *)
(*          11.111.111-1 / Domicilio: Av. Alemania 0447 / Comuna: Temuco / *)
(*          Operación N° 860418"                                           *)
(*   PLAN   "pagadero en 24 cuotas mensuales, iguales de $ 55.000 y una    *)
(*          última de $ 54.321 con vencimiento el 5 de abril del año 2022, *)
(*          a contar del 5 de mayo del año 2020. tasa de interés 1,5%      *)
(*          mensual, venciendo la primera cuota el día 5 de mayo de 2020 y *)
(*          la última el 5 de abril de 2022."                              *)
(*   SIGN   "Representante 1: Pedro Soto Ruiz / Representante 2: Ana Ruiz  *)
(*          Vera / impuesto $ ."                                           *)
(*   INFO   "Dirección Informativa: Calle Uno 1, Vina del Mar / RUT        *)
(*          22.222.222-2"                                                  *)
(*   HEADER "BANCO ITAU CHILE / Domicilio: Av. Presidente Riesco 5537, Las  *)
(*          Condes"                                                        *)
(*   LOOSE  "Suscriptor: Rosa Diaz Vera / Domicilio Calle Dos 22, Temuco"   *)
(* (a slash stands for a line break).                                      *)

PyStr(s) == [type |-> "str", val |-> s]
PyInt(s) == [type |-> "int", val |-> s]
PyNone == [type |-> "NoneType", val |-> "None"]

\* Python truth value of a string, a number or None
Truthy(v) ==
    IF v.type = "str" THEN v.val # ""
    ELSE IF v.type = "int" THEN v.val # "0"
    ELSE FALSE

\* a or b
PyOr(a, b) == IF Truthy(a) THEN a ELSE b

\* {}
EmptyDict == [k \in {} |-> PyNone]

\* d.get(k), which yields None for an absent key
DictGet_no_default(d, k, default) == IF k \in DOMAIN d THEN d[k] ELSE PyNone

\* d.get(k, default)
DictGet(d, k, default) == IF k \in DOMAIN d THEN d[k] ELSE default

\* d[k] = v
DictSet(d, k, v) == [x \in DOMAIN d \cup {k} |-> IF x = k THEN v ELSE d[x]]

AsTexts == {"EMPTY", "FRONT", "IDENT", "PLAN", "SIGN", "INFO", "HEADER", "LOOSE"}

\* the four operation patterns, the same in both banks
extract_operation_from_text(text) ==
    CASE text = "FRONT" -> PyStr("4191896500082450")
      [] text = "IDENT" -> PyStr("860418")
      [] OTHER -> PyStr("")

\* choose_rut_for_doc(text, find_all_ruts(text), doc_type) if ruts else ("", "")
page_rut(text) ==
    CASE text = "FRONT" -> <<PyStr("12345678"), PyStr("5")>>
      [] text = "IDENT" -> <<PyStr("11111111"), PyStr("1")>>
      [] text = "INFO" -> <<PyStr("22222222"), PyStr("2")>>
      [] OTHER -> <<PyStr(""), PyStr("")>>

extract_nombre_generic(text) ==
    CASE text = "FRONT" -> PyStr("JUAN PENA SOTO")
      [] text = "LOOSE" -> PyStr("ROSA DIAZ VERA")
      [] OTHER -> PyStr("")

santander_extract_nombre_generic(text) ==
    CASE text = "FRONT" -> PyStr("JUAN PENA SOTO")
      [] text = "IDENT" -> PyStr("/ DEUDOR: MARIA MUNOZ DIAZ")
      [] text = "INFO" -> PyStr("DIRECCIÓN INFORMATIVA: CALLE UNO 1, VINA DEL MAR")
      [] text = "LOOSE" -> PyStr("ROSA DIAZ VERA")
      [] OTHER -> PyStr("")

extract_domicilio_and_comuna_pp(text) ==
    CASE text = "FRONT" -> <<PyStr("LOS ROBLES 123"), PyStr("NUNOA")>>
      [] text = "HEADER" -> <<PyStr("AV. PRESIDENTE RIESCO 5537"), PyStr("LAS CONDES")>>
      [] text = "LOOSE" -> <<PyStr("CALLE DOS 22"), PyStr("TEMUCO")>>
      [] OTHER -> <<PyStr(""), PyStr("")>>

extract_domicilio_and_comuna(text) ==
    CASE text = "FRONT" -> <<PyStr("LOS ROBLES 123"), PyStr("ÑUÑOA")>>
      [] text = "IDENT" -> <<PyStr("AV. ALEMANIA 0447"), PyStr("TEMUCO")>>
      [] text = "HEADER" -> <<PyStr("AV. PRESIDENTE RIESCO 5537"), PyStr("LAS CONDES")>>
      [] OTHER -> <<PyStr(""), PyStr("")>>

\* the date patterns in their order; rank 0 is "no pattern matches"
DateMatch(text) ==
    CASE text = "FRONT" -> [rank |-> 1, date |-> "12-03-2020"]
      [] text = "PLAN" -> [rank |-> 2, date |-> "05-05-2020"]
      [] OTHER -> [rank |-> 0, date |-> ""]

parse_spanish_date(text) == PyStr(DateMatch(text).date)

\* (formatted amount, number): the number is None when nothing matches
\* and when the best match has no digit
extract_amount(text) ==
    CASE text = "FRONT" -> <<PyStr("1.234.567"), PyInt("1234567")>>
      [] text = "PLAN" -> <<PyStr("55.000"), PyInt("55000")>>
      [] OTHER -> <<PyStr(""), PyNone>>

extract_fecha_vencimiento_primera_cuota(text) ==
    CASE text = "PLAN" -> PyStr("05-05-2020")
      [] OTHER -> PyStr("")

extract_fecha_vencimiento_ultima_cuota(text) ==
    CASE text = "PLAN" -> PyStr("05-04-2022")
      [] OTHER -> PyStr("")

\* the replacements of fix_n_to_ene that apply to the values met here
NToEne(s) ==
    CASE s = "JUAN PENA SOTO" -> "JUAN PEÑA SOTO"
      [] s = "MARIA MUNOZ DIAZ" -> "MARIA MUÑOZ DIAZ"
      [] s = "/ DEUDOR: MARIA MUNOZ DIAZ" -> "/ DEUDOR: MARIA MUÑOZ DIAZ"
      [] s = "DIRECCIÓN INFORMATIVA: CALLE UNO 1, VINA DEL MAR"
             -> "DIRECCIÓN INFORMATIVA: CALLE UNO 1, VIÑA DEL MAR"
      [] s = "LOS ROBLES 123, NUNOA" -> "LOS ROBLES 123, ÑUÑOA"
      [] s = "NUNOA" -> "ÑUÑOA"
      [] s = "VINA DEL MAR" -> "VIÑA DEL MAR"
      [] OTHER -> s

\* "if not text: return text" hands a falsy argument back as it is
fix_n_to_ene(text) == IF ~Truthy(text) THEN text ELSE PyStr(NToEne(text.val))

santander_fix_n_to_ene(text) == IF ~Truthy(text) THEN text ELSE PyStr(NToEne(text.val))

\* upper(), strip() and OCR_ADDRESS_FIXES on the addresses met here
AddressFix(s) ==
    CASE s = "AV. ALEMANIA 0447" -> "AV. ALEMANIA 447"
      [] s = "Av. Alemania 0447" -> "AV. ALEMANIA 447"
      [] OTHER -> s

clean_and_fix_address(address) ==
    IF ~Truthy(address) THEN PyStr("") ELSE PyStr(AddressFix(address.val))

\* the stand-in defined when geocoding_utils cannot be imported
clean_and_fix_address_fallback(address) == address

\* COMUNA_CORRECTIONS, VALID_COMUNAS and the similarity search on the
\* comunas met here
ComunaFix(s) ==
    CASE s = "VINA DEL MAR" -> "VIÑA DEL MAR"
      [] OTHER -> s

fix_comuna_ocr(comuna) ==
    IF ~Truthy(comuna) THEN PyStr("") ELSE PyStr(ComunaFix(comuna.val))

fix_comuna_ocr_fallback(comuna) == comuna

\* normalize_token, fix_n_to_ene and the COMUNAS search
fuzzy_comuna(s) == PyStr(NToEne(s.val))

\* the first truthy element of a sequence of strings, "" when there is none
RECURSIVE FirstTruthy(_)
FirstTruthy(s) ==
    IF s = <<>> THEN PyStr("")
    ELSE IF Truthy(Head(s)) THEN Head(s)
    ELSE FirstTruthy(Tail(s))

extract_operation_allpages(text_pages) ==
    FirstTruthy([i \in 1..Len(text_pages) |-> extract_operation_from_text(text_pages[i])])

\* the longest run of six or more digits in the file name
FilenameDigits(name) ==
    CASE name = "60247566.pdf" -> "60247566"
      [] OTHER -> ""

extract_operation_from_filename(filename) ==
    IF ~Truthy(filename) THEN PyStr("") ELSE PyStr(FilenameDigits(filename.val))

\* the sample values that hold one of "EN SU OFICINA", "PRESIDENTE RIESCO",
\* "BANCO ITA", "COMUNA DE LAS" once put in upper case
is_bank_header_line(s) ==
    s \in {"AV. PRESIDENTE RIESCO 5537, LAS CONDES", "AV. PRESIDENTE RIESCO 5537",
           "BANCO ITAU CHILE"}

\* what the five patterns of extract_cc_identity_block capture on a page
\* ("" when a pattern does not match)
IdentMatch(text) ==
    CASE text = "FRONT" ->
            [name |-> "", rut |-> "", dv |-> "", dom |-> "LOS ROBLES 123, NUNOA",
             info |-> "", infoComuna |-> "", comuna |-> ""]
      [] text = "IDENT" ->
            [name |-> "MARIA MUNOZ DIAZ", rut |-> "11111111", dv |-> "1",
             dom |-> "AV. ALEMANIA 0447", info |-> "", infoComuna |-> "",
             comuna |-> "TEMUCO"]
      [] text = "INFO" ->
            [name |-> "", rut |-> "", dv |-> "", dom |-> "",
             info |-> "CALLE UNO 1", infoComuna |-> "VIÑA DEL MAR", comuna |-> ""]
      [] text = "HEADER" ->
            [name |-> "", rut |-> "", dv |-> "",
             dom |-> "AV. PRESIDENTE RIESCO 5537, LAS CONDES",
             info |-> "", infoComuna |-> "", comuna |-> ""]
      [] OTHER ->
            [name |-> "", rut |-> "", dv |-> "", dom |-> "",
             info |-> "", infoComuna |-> "", comuna |-> ""]

\* the statements of one iteration of the page loop of
\* extract_cc_identity_block, in their order; m is what the patterns find
IdentTakeName(ident, m) ==
    IF m.name # "" /\ ident.name = "" THEN [ident EXCEPT !.name = m.name] ELSE ident

IdentTakeRut(ident, m) ==
    IF m.rut # "" /\ ident.rut = "" THEN [ident EXCEPT !.rut = m.rut, !.dv = m.dv]
    ELSE ident

IdentTakeDomicilio(ident, m) ==
    IF m.dom # "" /\ ident.address = "" /\ ~is_bank_header_line(m.dom)
    THEN [ident EXCEPT !.address = m.dom]
    ELSE ident

IdentTakeInfo(ident, m) ==
    IF ident.address = "" /\ m.info # "" /\ ~is_bank_header_line(m.info)
    THEN [ident EXCEPT !.address = m.info,
                       !.comuna = IF ident.comuna = "" THEN m.infoComuna
                                  ELSE ident.comuna]
    ELSE ident

IdentTakeComuna(ident, m) ==
    IF m.comuna # "" /\ ident.comuna = "" THEN [ident EXCEPT !.comuna = m.comuna]
    ELSE ident

\* one iteration of the page loop of extract_cc_identity_block
IdentStep(ident, text) ==
    IdentTakeComuna(
        IdentTakeInfo(
            IdentTakeDomicilio(
                IdentTakeRut(
                    IdentTakeName(ident, IdentMatch(text)),
                    IdentMatch(text)),
                IdentMatch(text)),
            IdentMatch(text)),
        IdentMatch(text))

RECURSIVE IdentLoop(_, _)
IdentLoop(ident, text_pages) ==
    IF text_pages = <<>> THEN ident
    ELSE IdentLoop(IdentStep(ident, Head(text_pages)), Tail(text_pages))

extract_cc_identity_block(text_pages) ==
    LET ident == IdentLoop([name |-> "", rut |-> "", dv |-> "", address |-> "",
                            comuna |-> "", ok |-> FALSE], text_pages)
    IN  [name |-> PyStr(ident.name), rut |-> PyStr(ident.rut), dv |-> PyStr(ident.dv),
         address |-> PyStr(ident.address), comuna |-> PyStr(ident.comuna),
         ok |-> [type |-> "bool",
                 val |-> IF ident.address # "" \/ ident.comuna # "" THEN "True"
                         ELSE "False"]]

\* the names after "Representante 1" and "Representante 2" on a page
RepMatch(text) ==
    CASE text = "SIGN" -> <<"PEDRO SOTO RUIZ", "ANA RUIZ VERA">>
      [] OTHER -> <<"", "">>

\* every page with a name overwrites the one found before
RECURSIVE RepLoop(_, _)
RepLoop(reps, text_pages) ==
    IF text_pages = <<>> THEN reps
    ELSE LET m == RepMatch(Head(text_pages))
         IN  RepLoop(<<IF m[1] # "" THEN m[1] ELSE reps[1],
                       IF m[2] # "" THEN m[2] ELSE reps[2]>>, Tail(text_pages))

extract_representantes_allpages(text_pages) ==
    LET reps == RepLoop(<<"", "">>, text_pages)
    IN  <<PyStr(reps[1]), PyStr(reps[2])>>

\* max(rows, key=score_row_basic) if rows else {}: the first row with the
\* highest score (scores[i] is the score of rows[i])
BestRow(rows, scores) ==
    IF rows = <<>> THEN EmptyDict
    ELSE rows[CHOOSE i \in 1..Len(rows) :
                 /\ \A j \in 1..Len(rows) : scores[j] <= scores[i]
                 /\ \A j \in 1..(i - 1) : scores[j] < scores[i]]

\* the first row whose field is truthy gives the value, "" when none does
RECURSIVE FirstField(_, _)
FirstField(rows, field) ==
    IF rows = <<>> THEN PyStr("")
    ELSE IF Truthy(DictGet(Head(rows), field, PyNone)) THEN Head(rows)[field]
    ELSE FirstField(Tail(rows), field)

\* the row process_pagare builds for one page
PagareRow(text) ==
    [k \in {"text", "OPERACIÓN", "RUT", "DV", "NOMBRE", "DIRECCION", "COMUNA",
            "FECHA_SUSCRIPCION", "MONTO_CREDITO", "FECHA_VENC_1", "FECHA_VENC_ULTIMA"} |->
        CASE k = "text" -> PyStr(text)
          [] k = "OPERACIÓN" -> extract_operation_from_text(text)
          [] k = "RUT" -> page_rut(text)[1]
          [] k = "DV" -> page_rut(text)[2]
          [] k = "NOMBRE" -> extract_nombre_generic(text)
          [] k = "DIRECCION" -> extract_domicilio_and_comuna_pp(text)[1]
          [] k = "COMUNA" -> extract_domicilio_and_comuna_pp(text)[2]
          [] k = "FECHA_SUSCRIPCION" -> parse_spanish_date(text)
          [] k = "MONTO_CREDITO" -> extract_amount(text)[1]
          [] k = "FECHA_VENC_1" -> extract_fecha_vencimiento_primera_cuota(text)
          [] OTHER -> extract_fecha_vencimiento_ultima_cuota(text)]

\* score_row_basic of process_pagare
PagareScore(r) ==
    (IF Truthy(DictGet(r, "OPERACIÓN", PyNone)) THEN 50 ELSE 0)
    + (IF Truthy(DictGet(r, "RUT", PyNone)) THEN 30 ELSE 0)
    + (IF Truthy(DictGet(r, "NOMBRE", PyNone)) THEN 20 ELSE 0)
    + (IF Truthy(DictGet(r, "MONTO_CREDITO", PyNone)) THEN 10 ELSE 0)

process_pagare(text_pages, geo_utils, source_name) ==
    LET rows == [i \in 1..Len(text_pages) |-> PagareRow(text_pages[i])]
        operation == extract_operation_allpages(text_pages)
        op_from_file == extract_operation_from_filename(PyOr(source_name, PyStr("")))
        best == BestRow(rows, [i \in 1..Len(rows) |-> PagareScore(rows[i])])
        reps == extract_representantes_allpages(text_pages)
        direccion == IF geo_utils
                     THEN clean_and_fix_address(DictGet(best, "DIRECCION", PyStr("")))
                     ELSE clean_and_fix_address_fallback(DictGet(best, "DIRECCION", PyStr("")))
        comuna == IF geo_utils
                  THEN fix_comuna_ocr(DictGet(best, "COMUNA", PyStr("")))
                  ELSE fix_comuna_ocr_fallback(DictGet(best, "COMUNA", PyStr("")))
        fecha_sus_final == FirstField(rows, "FECHA_SUSCRIPCION")
        fecha_venc_1_final == FirstField(rows, "FECHA_VENC_1")
        fecha_venc_ultima_final == FirstField(rows, "FECHA_VENC_ULTIMA")
    IN  [OPERACION_1 |-> PyOr(operation,
                              PyOr(DictGet(best, "OPERACIÓN", PyStr("")), op_from_file)),
         RUT |-> DictGet(best, "RUT", PyStr("")),
         DV |-> DictGet(best, "DV", PyStr("")),
         NOMBRE |-> fix_n_to_ene(DictGet(best, "NOMBRE", PyStr(""))),
         DIRECCION |-> fix_n_to_ene(direccion),
         COMUNA |-> fix_n_to_ene(comuna),
         FECHA_SUSCRIPCION_1 |->
             PyOr(fecha_sus_final, DictGet(best, "FECHA_SUSCRIPCION", PyStr(""))),
         MONTO_CREDITO_1 |-> DictGet(best, "MONTO_CREDITO", PyStr("")),
         CUOTAS_1 |-> PyStr(""), TASA_1 |-> PyStr(""), MONTO_CUOTA_1 |-> PyStr(""),
         MONTO_ULTIMA_CUOTA_1 |-> PyStr(""),
         FECHA_VENCIMIENTO_1_CUOTA_1 |->
             PyOr(fecha_venc_1_final, DictGet(best, "FECHA_SUSCRIPCION", PyStr(""))),
         FECHA_VENCIMIENTO_ULTIMA_CUOTA_1 |->
             PyOr(fecha_venc_ultima_final, DictGet(best, "FECHA_SUSCRIPCION", PyStr(""))),
         CUOTA_MOROSA_1 |-> PyStr(""), FECHA_CUOTA_MOROSA_1 |-> PyStr(""),
         CAPITAL_1 |-> DictGet(best, "MONTO_CREDITO", PyStr("")),
         EXHORTO |-> PyStr("TEMUCO"), SUCURSAL |-> PyStr("SANTIAGO"),
         PRODUCTO |-> PyStr("PP"),
         NOMBRE_APODERADO |-> fix_n_to_ene(reps[1]),
         NOMBRE_APODERADO_2 |-> fix_n_to_ene(reps[2])]

\* the row process_credito_consumo builds for one page
ConsumoRow(text) ==
    [k \in {"text", "OPERACIÓN", "RUT", "DV", "NOMBRE_G", "FECHA_SUSCRIPCION",
            "MONTO_CREDITO", "FECHA_VENC_1", "FECHA_VENC_ULTIMA"} |->
        CASE k = "text" -> PyStr(text)
          [] k = "OPERACIÓN" -> extract_operation_from_text(text)
          [] k = "RUT" -> page_rut(text)[1]
          [] k = "DV" -> page_rut(text)[2]
          [] k = "NOMBRE_G" -> extract_nombre_generic(text)
          [] k = "FECHA_SUSCRIPCION" -> parse_spanish_date(text)
          [] k = "MONTO_CREDITO" -> extract_amount(text)[1]
          [] k = "FECHA_VENC_1" -> extract_fecha_vencimiento_primera_cuota(text)
          [] OTHER -> extract_fecha_vencimiento_ultima_cuota(text)]

\* score_row_basic of process_credito_consumo
ConsumoScore(r) ==
    (IF Truthy(DictGet(r, "OPERACIÓN", PyNone)) THEN 50 ELSE 0)
    + (IF Truthy(DictGet(r, "RUT", PyNone)) THEN 30 ELSE 0)
    + (IF Truthy(DictGet(r, "NOMBRE_G", PyNone)) THEN 20 ELSE 0)
    + (IF Truthy(DictGet(r, "MONTO_CREDITO", PyNone)) THEN 10 ELSE 0)

process_credito_consumo(text_pages, geo_utils, source_name) ==
    LET ident == extract_cc_identity_block(text_pages)
        rows == [i \in 1..Len(text_pages) |-> ConsumoRow(text_pages[i])]
        best == BestRow(rows, [i \in 1..Len(rows) |-> ConsumoScore(rows[i])])
        operation == PyOr(extract_operation_allpages([i \in 1..Len(rows) |-> rows[i].text.val]),
                          DictGet(best, "OPERACIÓN", PyStr("")))
        op_from_file == extract_operation_from_filename(PyOr(source_name, PyStr("")))
        nombre == PyOr(ident.name, PyOr(DictGet(best, "NOMBRE_G", PyStr("")), PyStr("")))
        rut == PyOr(ident.rut, PyOr(DictGet(best, "RUT", PyStr("")), PyStr("")))
        dv == PyOr(ident.dv, PyOr(DictGet(best, "DV", PyStr("")), PyStr("")))
        direccion == IF geo_utils
                     THEN clean_and_fix_address(PyOr(ident.address, PyStr("")))
                     ELSE clean_and_fix_address_fallback(PyOr(ident.address, PyStr("")))
        comuna == IF geo_utils
                  THEN fix_comuna_ocr(PyOr(ident.comuna, PyStr("")))
                  ELSE fix_comuna_ocr_fallback(PyOr(ident.comuna, PyStr("")))
        reps == extract_representantes_allpages(text_pages)
    IN  [OPERACION_1 |-> PyOr(operation, op_from_file),
         RUT |-> rut, DV |-> dv,
         NOMBRE |-> fix_n_to_ene(nombre),
         DIRECCION |-> fix_n_to_ene(direccion),
         COMUNA |-> fix_n_to_ene(comuna),
         FECHA_SUSCRIPCION_1 |-> DictGet(best, "FECHA_SUSCRIPCION", PyStr("")),
         MONTO_CREDITO_1 |-> DictGet(best, "MONTO_CREDITO", PyStr("")),
         CUOTAS_1 |-> PyStr(""), TASA_1 |-> PyStr(""), MONTO_CUOTA_1 |-> PyStr(""),
         MONTO_ULTIMA_CUOTA_1 |-> PyStr(""),
         FECHA_VENCIMIENTO_1_CUOTA_1 |-> FirstField(rows, "FECHA_VENC_1"),
         FECHA_VENCIMIENTO_ULTIMA_CUOTA_1 |-> FirstField(rows, "FECHA_VENC_ULTIMA"),
         CUOTA_MOROSA_1 |-> PyStr(""), FECHA_CUOTA_MOROSA_1 |-> PyStr(""),
         CAPITAL_1 |-> DictGet(best, "MONTO_CREDITO", PyStr("")),
         EXHORTO |-> PyStr("TEMUCO"), SUCURSAL |-> PyStr("SANTIAGO"),
         PRODUCTO |-> PyStr("CC"),
         NOMBRE_APODERADO |-> fix_n_to_ene(reps[1]),
         NOMBRE_APODERADO_2 |-> fix_n_to_ene(reps[2])]

\* process_document_unified of the Itau module: the dispatch on doc_type
itau_process_document_unified(text_pages, doc_type, geo_utils, source_name) ==
    IF doc_type = "PP" THEN process_pagare(text_pages, geo_utils, source_name)
    ELSE process_credito_consumo(text_pages, geo_utils, source_name)

\* the first labelled, valid, non-institutional RUT of a page
GlobalRutMatch(text) ==
    CASE text = "FRONT" -> <<"12345678", "5">>
      [] text = "IDENT" -> <<"11111111", "1">>
      [] text = "INFO" -> <<"22222222", "2">>
      [] OTHER -> <<"", "">>

\* candidates are sorted by their position in the joined text
RECURSIVE extract_rut_global(_)
extract_rut_global(text_pages) ==
    IF text_pages = <<>> THEN <<PyStr(""), PyStr("")>>
    ELSE IF GlobalRutMatch(Head(text_pages))[1] # ""
    THEN <<PyStr(GlobalRutMatch(Head(text_pages))[1]),
           PyStr(GlobalRutMatch(Head(text_pages))[2])>>
    ELSE extract_rut_global(Tail(text_pages))

\* the amount after "la suma de" on a page
SumaDeMatch(text) ==
    CASE text = "FRONT" -> "1.234.567"
      [] OTHER -> ""

\* the largest "$" amount of four or more characters on a page
DollarMax(text) ==
    CASE text = "FRONT" -> 1234567
      [] text = "PLAN" -> 55000
      [] OTHER -> 0

\* f"{n:,}".replace(",", ".")
FormatThousands(n) ==
    CASE n = 1234567 -> "1.234.567"
      [] n = 55000 -> "55.000"
      [] OTHER -> ""

RECURSIVE MaxDollar(_)
MaxDollar(text_pages) ==
    IF text_pages = <<>> THEN 0
    ELSE Max(DollarMax(Head(text_pages)), MaxDollar(Tail(text_pages)))

extract_credit_amount_cc(text_pages) ==
    LET suma == FirstTruthy([i \in 1..Len(text_pages) |-> PyStr(SumaDeMatch(text_pages[i]))])
        best == MaxDollar(text_pages)
    IN  IF Truthy(suma) THEN suma
        ELSE IF best > 0 THEN PyStr(FormatThousands(best))
        ELSE PyStr("")

\* "<n> cuotas" on a page
CuotasMatch(text) ==
    CASE text = "PLAN" -> "24"
      [] OTHER -> ""

\* rate, instalment amounts and due dates, which are read from page 1 only
Page1Plan(text) ==
    CASE text = "PLAN" -> <<"1.5%", "55.000", "54.321", "05-05-2020", "05-04-2022">>
      [] OTHER -> <<"", "", "", "", "">>

extract_cuotas_tasa(text_pages) ==
    LET page1 == IF text_pages # <<>> THEN text_pages[1] ELSE "EMPTY"
        plan == Page1Plan(page1)
    IN  <<FirstTruthy([i \in 1..Len(text_pages) |-> PyStr(CuotasMatch(text_pages[i]))]),
          PyStr(plan[1]), PyStr(plan[2]), PyStr(plan[3]), PyStr(plan[4]), PyStr(plan[5])>>

\* name, address and comuna of the "Cliente / deudor" block of a page
ClienteMatch(text) ==
    CASE text = "IDENT" -> [found |-> TRUE, name |-> "MARIA MUNOZ DIAZ",
                            addr |-> "Av. Alemania 0447", comuna |-> ""]
      [] OTHER -> [found |-> FALSE, name |-> "", addr |-> "", comuna |-> ""]

\* the first line with "Cliente / deudor" decides
RECURSIVE ClienteBlock(_)
ClienteBlock(text_pages) ==
    IF text_pages = <<>> THEN ClienteMatch("EMPTY")
    ELSE IF ClienteMatch(Head(text_pages)).found THEN ClienteMatch(Head(text_pages))
    ELSE ClienteBlock(Tail(text_pages))

\* parse_spanish_date on the joined text: the earliest pattern that matches
\* anywhere wins, and within a pattern the first match
JoinedDate(text_pages) ==
    LET hits == {i \in 1..Len(text_pages) : DateMatch(text_pages[i]).rank > 0}
    IN  IF hits = {} THEN ""
        ELSE DateMatch(text_pages[
                 CHOOSE i \in hits :
                     \A j \in hits :
                         \/ DateMatch(text_pages[i]).rank < DateMatch(text_pages[j]).rank
                         \/ /\ DateMatch(text_pages[i]).rank = DateMatch(text_pages[j]).rank
                            /\ i <= j]).date

extract_cc_name_addr_comuna_and_date(text_pages) ==
    LET block == ClienteBlock(text_pages)
    IN  <<PyStr(block.name), PyStr(block.addr), PyStr(block.comuna),
          PyStr(JoinedDate(text_pages))>>

\* the row process_document_unified (Santander) builds for one page
SantanderRow(text) ==
    [k \in {"text", "OPERACIÓN", "RUT", "DV", "NOMBRE", "DIRECCION", "COMUNA",
            "FECHA_SUSCRIPCION", "MONTO_CREDITO"} |->
        CASE k = "text" -> PyStr(text)
          [] k = "OPERACIÓN" -> extract_operation_from_text(text)
          [] k = "RUT" -> page_rut(text)[1]
          [] k = "DV" -> page_rut(text)[2]
          [] k = "NOMBRE" -> santander_extract_nombre_generic(text)
          [] k = "DIRECCION" -> extract_domicilio_and_comuna(text)[1]
          [] k = "COMUNA" -> extract_domicilio_and_comuna(text)[2]
          [] k = "FECHA_SUSCRIPCION" -> parse_spanish_date(text)
          [] OTHER -> extract_amount(text)[1]]

\* score_row_basic of the Santander assembler
SantanderRowScore(r) ==
    (IF Truthy(DictGet(r, "OPERACIÓN", PyNone)) THEN 50 ELSE 0)
    + (IF Truthy(DictGet(r, "RUT", PyNone)) THEN 30 ELSE 0)
    + (IF Truthy(DictGet(r, "NOMBRE", PyNone)) THEN 20 ELSE 0)

\* best[k] = v when v is truthy
SetIf(d, k, v) == IF Truthy(v) THEN DictSet(d, k, v) ELSE d

santander_process_document_unified(text_pages, doc_type, geo_utils, source_name) ==
    LET rows == [i \in 1..Len(text_pages) |-> SantanderRow(text_pages[i])]
        best0 == BestRow(rows, [i \in 1..Len(rows) |-> SantanderRowScore(rows[i])])
        operation0 == PyOr(extract_operation_allpages(
                               [i \in 1..Len(rows) |-> rows[i].text.val]),
                           DictGet(best0, "OPERACIÓN", PyStr("")))
        operation == IF Truthy(source_name) /\ FilenameDigits(source_name.val) # ""
                     THEN PyStr(FilenameDigits(source_name.val))
                     ELSE operation0
        plan == extract_cuotas_tasa(text_pages)
        grut == extract_rut_global(text_pages)
        best1 == IF ~Truthy(DictGet(best0, "RUT", PyNone)) /\ Truthy(grut[1])
                 THEN DictSet(DictSet(best0, "RUT", grut[1]), "DV", grut[2])
                 ELSE best0
        cc == extract_cc_name_addr_comuna_and_date(text_pages)
        best == IF doc_type = "CC"
                THEN SetIf(SetIf(SetIf(SetIf(SetIf(best1, "NOMBRE", cc[1]),
                                             "DIRECCION", cc[2]),
                                       "COMUNA", cc[3]),
                                 "FECHA_SUSCRIPCION", cc[4]),
                           "MONTO_CREDITO", extract_credit_amount_cc(text_pages))
                ELSE best1
        addr_norm == santander_fix_n_to_ene(DictGet(best, "DIRECCION", PyStr("")))
        comuna_norm == fuzzy_comuna(santander_fix_n_to_ene(DictGet(best, "COMUNA", PyStr(""))))
    IN  [OPERACION_1 |-> operation,
         RUT |-> DictGet(best, "RUT", PyStr("")),
         DV |-> DictGet(best, "DV", PyStr("")),
         NOMBRE |-> santander_fix_n_to_ene(DictGet(best, "NOMBRE", PyStr(""))),
         DIRECCION |-> IF geo_utils THEN clean_and_fix_address(addr_norm)
                       ELSE clean_and_fix_address_fallback(addr_norm),
         COMUNA |-> IF geo_utils THEN fix_comuna_ocr(comuna_norm)
                    ELSE fix_comuna_ocr_fallback(comuna_norm),
         FECHA_SUSCRIPCION_1 |-> DictGet(best, "FECHA_SUSCRIPCION", PyStr("")),
         MONTO_CREDITO_1 |-> DictGet(best, "MONTO_CREDITO", PyStr("")),
         CUOTAS_1 |-> PyOr(plan[1], PyStr("")),
         TASA_1 |-> PyOr(plan[2], PyStr("")),
         MONTO_CUOTA_1 |-> PyOr(plan[3], PyStr("")),
         MONTO_ULTIMA_CUOTA_1 |-> PyOr(plan[4], PyStr("")),
         FECHA_VENCIMIENTO_1_CUOTA_1 |-> PyOr(plan[5], PyStr("")),
         FECHA_VENCIMIENTO_ULTIMA_CUOTA_1 |-> PyOr(plan[6], PyStr("")),
         CUOTA_MOROSA_1 |-> PyStr(""), FECHA_CUOTA_MOROSA_1 |-> PyStr(""),
         CAPITAL_1 |-> DictGet(best, "MONTO_CREDITO", PyStr("")),
         EXHORTO |-> PyStr("SANTIAGO"), SUCURSAL |-> PyStr("SANTIAGO"),
         PRODUCTO |-> PyStr(doc_type),
         NOMBRE_APODERADO |-> PyStr(""), NOMBRE_APODERADO_2 |-> PyStr("")]

MaxPages == 2

AsSources == {PyNone, PyStr("60247566.pdf"), PyStr("x.pdf")}

InitAssemble ==
    /\ asBank \in {"itau", "santander"}
    /\ asDocType \in {"PP", "CC"}
    /\ asPages \in SeqsUpTo(AsTexts, MaxPages)
    /\ asSource \in AsSources
    /\ asGeoUtils \in BOOLEAN
    /\ asRecord = <<>>
    /\ asPc = "called"
    /\ IdleBut("assemble")

AssembleItau ==
    /\ asPc = "called"
    /\ asBank = "itau"
    /\ asRecord' = itau_process_document_unified(asPages, asDocType, asGeoUtils, asSource)
    /\ asPc' = "returned"
    /\ UNCHANGED <<asBank, asDocType, asPages, asSource, asGeoUtils, notAssemble>>

AssembleSantander ==
    /\ asPc = "called"
    /\ asBank = "santander"
    /\ asRecord' = santander_process_document_unified(asPages, asDocType, asGeoUtils, asSource)
    /\ asPc' = "returned"
    /\ UNCHANGED <<asBank, asDocType, asPages, asSource, asGeoUtils, notAssemble>>

NextAssemble == AssembleItau \/ AssembleSantander

SpecAssemble == InitAssemble /\ [][NextAssemble]_vars

-----------------------------------------------------------------------------
(* Field Pattern Matcher: the rule loop of OCRToCSV.extract_fields_from_text.*)
(*                                                                         *)
(* A rule is a regular expression or a lambda.  group says whether the     *)
(* expression has a capturing group, blank whether that group can capture  *)
(* white space only.  The text is given by what each rule of the field     *)
(* finds in it: "none" (no match, or a lambda returning ""), "hit" (a      *)
(* match, with a non-empty candidate when there is a group), "blank" (a    *)
(* match whose group strips to "") or "TypeError" (the evaluation raises   *)
(* because the text or the file name is not a string).                     *)

Regex(group, blank) == [kind |-> "regex", group |-> group, blank |-> blank]

Lambda == [kind |-> "lambda", group |-> FALSE, blank |-> FALSE]

\* the rule lists of four fields of the patterns dictionary
MtPatterns(field_name) ==
    CASE field_name = "OPERACION" -> <<Lambda>>
      [] field_name = "RUT" ->
            <<Regex(TRUE, FALSE), Regex(TRUE, FALSE), Regex(FALSE, FALSE),
              Regex(FALSE, FALSE), Lambda>>
      [] field_name = "DIRECCION" ->
            <<Regex(FALSE, FALSE), Regex(FALSE, FALSE), Regex(TRUE, TRUE),
              Regex(TRUE, TRUE), Regex(TRUE, FALSE), Regex(TRUE, TRUE)>>
      [] field_name = "COMUNA" ->
            <<Regex(FALSE, FALSE), Regex(TRUE, TRUE), Regex(TRUE, TRUE),
              Regex(TRUE, TRUE)>>
      [] OTHER -> <<>>

MtFieldNames == {"OPERACION", "RUT", "DIRECCION", "COMUNA"}

\* on a text that is a string; a lambda raises TypeError when pdf_name is
\* not a string
RuleOutcomes(rule) ==
    IF rule.kind = "regex" /\ rule.group /\ rule.blank THEN {"none", "hit", "blank"}
    ELSE IF rule.kind = "lambda" THEN {"none", "hit", "TypeError"}
    ELSE {"none", "hit"}

\* on a text that is not a string (None): re.search raises TypeError for
\* every expression
MalformedOutcomes(rule) ==
    IF rule.kind = "regex" THEN {"TypeError"} ELSE {"none", "hit", "TypeError"}

\* the exception classes the "except Exception" clause of the loop catches
Handles_index_only(exception) == exception = "IndexError"

Handles(exception) == exception \in {"IndexError", "TypeError"}

\* what the expressions imply about each other: the labelled RUT pattern
\* contains the plain one, a sample address is also a "street + number",
\* and "comuna de X" is also matched by "COMUNA[:\s]+..." (IGNORECASE)
MtConsistent(field_name, text) ==
    CASE field_name = "RUT" -> (text[1] = "hit" => text[2] = "hit")
      [] field_name = "DIRECCION" ->
            /\ text[1] = "hit" => text[5] = "hit"
            /\ text[2] = "hit" => text[5] = "hit"
      [] field_name = "COMUNA" -> (text[3] # "none" => text[2] # "none")
      [] OTHER -> TRUE

MtTexts(field_name) ==
    LET rules == MtPatterns(field_name)
    IN  {text \in [1..Len(rules) -> {"none", "hit", "blank", "TypeError"}] :
            /\ \/ \A i \in 1..Len(rules) : text[i] \in RuleOutcomes(rules[i])
               \/ \A i \in 1..Len(rules) : text[i] \in MalformedOutcomes(rules[i])
            /\ MtConsistent(field_name, text)}

\* match.group(1).strip(), or the lambda's result, of rule i when it is not empty
MtCandidate(i) == <<"c1", "c2", "c3", "c4", "c5", "c6">>[i]

\* post_process_field(field_name, clean_extracted_value(str(field_value)))
Processed(field_name, field_value) ==
    <<"post_process_field", field_name, <<"clean_extracted_value", field_value>>>>

InitMatch ==
    /\ mtField \in MtFieldNames
    /\ mtText \in MtTexts(mtField)
    /\ mtIdx = 1
    /\ mtValue = ""
    /\ mtTried = {}
    /\ mtFields = <<>>
    /\ mtPc = "loop"
    /\ IdleBut("match")

\* after a rule: leave the loop on break or after the last rule and store
\* the field, else go on with the next rule
MtEnd(field_value, stop) ==
    IF stop \/ mtIdx = Len(MtPatterns(mtField))
    THEN /\ mtFields' = [f \in {mtField} |-> Processed(mtField, field_value)]
         /\ mtPc' = "done"
         /\ mtIdx' = mtIdx
    ELSE /\ mtIdx' = mtIdx + 1
         /\ UNCHANGED <<mtFields, mtPc>>

\* a lambda: field_value is assigned, and the loop breaks if it is truthy
TryLambda ==
    /\ mtPc = "loop"
    /\ MtPatterns(mtField)[mtIdx].kind = "lambda"
    /\ LET v == IF mtText[mtIdx] = "hit" THEN MtCandidate(mtIdx) ELSE ""
       IN  /\ mtValue' = v
           /\ MtEnd(v, v # "")
    /\ mtTried' = mtTried \cup {mtIdx}
    /\ UNCHANGED <<mtField, mtText, notMatch>>

\* re.search finds nothing
TryRegexNoMatch ==
    /\ mtPc = "loop"
    /\ MtPatterns(mtField)[mtIdx].kind = "regex"
    /\ mtText[mtIdx] = "none"
    /\ MtEnd(mtValue, FALSE)
    /\ mtTried' = mtTried \cup {mtIdx}
    /\ UNCHANGED <<mtField, mtText, mtValue, notMatch>>

\* a match: field_value = match.group(1).strip(), then break
TryRegexMatch ==
    /\ mtPc = "loop"
    /\ MtPatterns(mtField)[mtIdx].kind = "regex"
    /\ MtPatterns(mtField)[mtIdx].group
    /\ mtText[mtIdx] \in {"hit", "blank"}
    /\ LET v == IF mtText[mtIdx] = "hit" THEN MtCandidate(mtIdx) ELSE ""
       IN  /\ mtValue' = v
           /\ MtEnd(v, TRUE)
    /\ mtTried' = mtTried \cup {mtIdx}
    /\ UNCHANGED <<mtField, mtText, notMatch>>

\* a match of an expression without a group: match.group(1) raises
\* IndexError, the except branch continues with the next rule
TryRegexNoGroup ==
    /\ mtPc = "loop"
    /\ MtPatterns(mtField)[mtIdx].kind = "regex"
    /\ ~MtPatterns(mtField)[mtIdx].group
    /\ mtText[mtIdx] = "hit"
    /\ MtEnd(mtValue, FALSE)
    /\ mtTried' = mtTried \cup {mtIdx}
    /\ UNCHANGED <<mtField, mtText, mtValue, notMatch>>

\* the evaluation of a rule raises TypeError: the except branch continues
\* with the next rule; an exception the clause does not catch leaves the method
TryRaises ==
    /\ mtPc = "loop"
    /\ mtText[mtIdx] = "TypeError"
    /\ IF Handles("TypeError")
       THEN MtEnd(mtValue, FALSE)
       ELSE /\ mtPc' = "raised"
            /\ UNCHANGED <<mtIdx, mtFields>>
    /\ mtTried' = mtTried \cup {mtIdx}
    /\ UNCHANGED <<mtField, mtText, mtValue, notMatch>>

NextMatch ==
    TryLambda \/ TryRegexNoMatch \/ TryRegexMatch \/ TryRegexNoGroup \/ TryRaises

SpecMatch == InitMatch /\ [][NextMatch]_vars

-----------------------------------------------------------------------------
(* Candidate Scorer claims                                                 *)

DebtorId == <<DebtorRut, DebtorDv>>

IsInstitutionRut(seg) == seg.kind = "RUT" /\ seg.who \in {"ITAU", "SANT"}

\* the institution's own ID right after "Representado por Banco X"
HasInstitutionInBankContext(layout) ==
    \E i \in 1..(Len(layout) - 1) : layout[i].kind = "BANK" /\ IsInstitutionRut(layout[i + 1])

\* the debtor's ID right after "Suscriptor: ..."
HasDebtorNearSuscriptor(layout) ==
    \E i \in 1..(Len(layout) - 1) :
        layout[i].kind = "SUS" /\ layout[i + 1].kind = "RUT" /\ layout[i + 1].who = "DEBTOR"

\* C5: whenever the page text holds the institution's own ID in a bank context
\* and the debtor's ID near a "Suscriptor:" label, the scorer (of either bank)
\* returns the debtor's ID, never the institution's, in whatever order the two
\* appear and whatever label pattern matched each of them.
C5_DebtorChosen ==
    (scBank # "none" /\ HasInstitutionInBankContext(scLayout) /\ HasDebtorNearSuscriptor(scLayout))
        => scChosen = DebtorId

\* the candidates the run found, in the order find_all_ruts listed them
ScCandidates ==
    IF scBank = "itau" THEN find_all_ruts(scLayout) ELSE santander_find_all_ruts(scLayout)

\* the candidates the loop scored (Itaú's loop passes over its own ID)
ScScored(cands) ==
    {k \in 1..Len(cands) : scBank = "itau" => ~ItauExcluded(cands[k])}

ScScores(cands) ==
    [k \in 1..Len(cands) |->
        IF scBank = "itau" THEN ItauScore(scLayout, cands[k], scDocType)
                           ELSE SantanderScore(scLayout, cands[k], scDocType)]

\* C6: the Itaú scorer returns a candidate of maximal score and, among
\* candidates of exactly equal maximal score at different text positions, the
\* one at the lower position, whichever pattern produced them.  Stated for the
\* runs where some scored candidate reaches a score of 0 or more.
C6_MaxScoreLowestPosition ==
    scBank = "itau" =>
        LET cands   == ScCandidates
            scored  == ScScored(cands)
            score   == ScScores(cands)
            winners == {k \in scored : \A j \in scored : score[j] <= score[k]}
            first   == {k \in winners : \A j \in winners : cands[k].pos <= cands[j].pos}
        IN  (\E k \in scored : score[k] >= 0)
                => \E k \in first : scChosen = <<cands[k].rut, cands[k].dv>>

-----------------------------------------------------------------------------
(* Reconciler claims                                                       *)

\* the row as it stood before the merge
MgBefore == clean_and_normalize_row(mgRaw, FALSE)

\* the trace entry the row matched
MgEntry == MergeCand(MgBefore, mgDebugMap)

MgMerged == mgPc \in {"merged", "appended"}

-----------------------------------------------------------------------------
(* Batch claims                                                            *)

\* the input documents that exist, in order
BtPresent == FilterSeq(btDocs, {d \in BtDocKinds : d.outcome # "missing"})

BtOpColumn == IF btEntry = "csv" THEN "OPERACION" ELSE "OPERACION_1"

\* the columns that hold what extraction found in the pages
BtExtracted(row) ==
    (DOMAIN row) \ {"OPERACION", "OPERACION_1", "EXHORTO", "SUCURSAL", "PRODUCTO",
                    "NOMBRE_APODERADO", "NOMBRE_APODERADO_2"}

\* C1: a completed batch run has written exactly one row per input document,
\* also for documents without page images and documents whose processing
\* raised; the row of such a document has empty extracted fields and the
\* operation id derived from its file name.
C1_OneRowPerDocument ==
    btPc = "done" =>
        /\ btOutput.written
        /\ Len(btOutput.rows) = Len(BtPresent)
        /\ \A i \in 1..Len(BtPresent) :
              BtPresent[i].outcome \in {"nopages", "raises"} =>
                  /\ btOutput.rows[i][BtOpColumn] = BtPresent[i].file
                  /\ \A c \in BtExtracted(btOutput.rows[i]) : btOutput.rows[i][c] = ""

\* C9: in the command-line run and in process_pdf_files alike, with the
\* reference table loaded and whatever the geocode option, every output record
\* whose operation id is a key of REFERENCE_DATA holds the reference value in
\* every field of that entry.
C9_ReferenceValuesInOutput ==
    (btPc = "done" /\ btEntry \in {"main", "api"} /\ btGeoUtils) =>
        \A i \in 1..Len(btOutput.rows) :
            LET row == btOutput.rows[i]
            IN  row["OPERACION_1"] \in DOMAIN REFERENCE_DATA =>
                    \A c \in DOMAIN REFERENCE_DATA[row["OPERACION_1"]] :
                        row[c] = REFERENCE_DATA[row["OPERACION_1"]][c]

\* the reference stage ran on the rows of the run
BtCorrected ==
    \/ btEntry = "main" /\ btGeoUtils
    \/ btEntry = "api" /\ btGeoUtils /\ btGeocode

-----------------------------------------------------------------------------
(* Row Assembler claims                                                    *)

\* C2: every record an assembler returns has exactly the 22 canonical
\* column keys, each mapped to a string (possibly empty), whatever the page
\* list (zero pages and pages without text included) and for both document
\* types.
C2_AllColumnsAreStrings ==
    asPc = "returned" =>
        /\ DOMAIN asRecord = SeqToSet(UNIFIED_COLUMNS)
        /\ \A k \in DOMAIN asRecord : asRecord[k].type = "str"

\* a record was returned for a document whose pages are all empty
C2_Witness ==
    /\ asPc = "returned"
    /\ asPages = <<"EMPTY", "EMPTY">>
    /\ asDocType = "CC"
    /\ DOMAIN asRecord = SeqToSet(UNIFIED_COLUMNS)

\* C14: a value that is_bank_header_line recognizes as the issuing bank's
\* boilerplate header is never the address of an assembled record, for both
\* document types; the address is left empty when there is no other
\* candidate.
C14_NoBankHeaderAddress ==
    (asPc = "returned" /\ asBank = "itau") =>
        ~is_bank_header_line(asRecord["DIRECCION"].val)

\* the page process_credito_consumo takes as the best one ("EMPTY" when the
\* document has no page)
BestPage(text_pages) ==
    LET rows == [i \in 1..Len(text_pages) |-> ConsumoRow(text_pages[i])]
        best == BestRow(rows, [i \in 1..Len(rows) |-> ConsumoScore(rows[i])])
    IN  DictGet(best, "text", PyStr("EMPTY")).val

\* the score extract_domicilio_and_comuna_pp gives the "Domicilio" line of a
\* page, -1 when the page has no such line
DomicilioScore(text) ==
    CASE text \in {"FRONT", "HEADER", "LOOSE"} -> 8
      [] text = "IDENT" -> 5
      [] OTHER -> 0 - 1

\* extract_domicilio_and_comuna_pp on the concatenation of the pages: the
\* best-scored "Domicilio" line, the earliest one among equals
WholeDocDomicilio(text_pages) ==
    LET cands == {i \in 1..Len(text_pages) : DomicilioScore(text_pages[i]) >= 0}
    IN  IF cands = {} THEN <<PyStr(""), PyStr("")>>
        ELSE extract_domicilio_and_comuna_pp(
                 text_pages[CHOOSE i \in cands :
                     \A j \in cands :
                         \/ DomicilioScore(text_pages[j]) < DomicilioScore(text_pages[i])
                         \/ (DomicilioScore(text_pages[j]) = DomicilioScore(text_pages[i])
                                /\ i <= j)])

\* extract_nombre_generic on the concatenation of the pages
WholeDocNombre(text_pages) ==
    FirstTruthy([i \in 1..Len(text_pages) |-> extract_nombre_generic(text_pages[i])])

\* an address candidate that is a bank header counts as no candidate
Accepted(address) == IF is_bank_header_line(address.val) THEN PyStr("") ELSE address

\* the corrections every assembled address / comuna goes through
FinalAddress(v) ==
    fix_n_to_ene(IF asGeoUtils THEN clean_and_fix_address(v)
                 ELSE clean_and_fix_address_fallback(v))

FinalComuna(v) ==
    fix_n_to_ene(IF asGeoUtils THEN fix_comuna_ocr(v) ELSE fix_comuna_ocr_fallback(v))

\* C15: each identity field (name, address, commune) of an assembled record
\* comes from the identity block when the block gives a non-empty accepted
\* value, otherwise from the generic extraction on the best page, otherwise
\* from the extraction over the whole document; a lower level is consulted
\* whenever the higher one is empty and never replaces a higher value.
C15_IdentityPriority ==
    (asPc = "returned" /\ asBank = "itau" /\ asDocType = "CC") =>
        LET ident == extract_cc_identity_block(asPages)
            page == extract_domicilio_and_comuna_pp(BestPage(asPages))
            whole == WholeDocDomicilio(asPages)
        IN  /\ asRecord["NOMBRE"] =
                   fix_n_to_ene(FirstTruthy(<<ident.name,
                                              extract_nombre_generic(BestPage(asPages)),
                                              WholeDocNombre(asPages)>>))
            /\ asRecord["DIRECCION"] =
                   FinalAddress(FirstTruthy(<<ident.address, Accepted(page[1]),
                                              Accepted(whole[1])>>))
            /\ asRecord["COMUNA"] =
                   FinalComuna(FirstTruthy(<<ident.comuna, page[2], whole[2]>>))

-----------------------------------------------------------------------------
(* Field Pattern Matcher claims                                            *)

\* the rules of the field that yield a non-empty candidate on the text
MtProducers ==
    {i \in 1..Len(MtPatterns(mtField)) :
        /\ mtText[i] = "hit"
        /\ MtPatterns(mtField)[i].kind = "lambda" \/ MtPatterns(mtField)[i].group}

\* C10: when the search of a field ends, the value is the candidate of the
\* first rule in list order that yields a non-empty candidate, and exactly
\* the rules up to that one were evaluated; a rule that matches nothing or
\* yields an empty candidate does not stop the search (with no producing
\* rule, every rule was evaluated and the value is empty).
C10_FirstNonEmptyCandidate ==
    mtPc = "done" =>
        IF MtProducers = {}
        THEN /\ mtValue = ""
             /\ mtTried = 1..Len(MtPatterns(mtField))
        ELSE LET first == CHOOSE i \in MtProducers : \A j \in MtProducers : i <= j
             IN  /\ mtValue = MtCandidate(first)
                 /\ mtTried = 1..first

\* clean_extracted_value("") is "" and post_process_field(field_name, "") is ""
IsEmptyResult(result) == result[3][2] = ""

\* the rules whose evaluation raises on the text
MtRaisers ==
    {i \in 1..Len(MtPatterns(mtField)) :
        \/ mtText[i] = "TypeError"
        \/ /\ mtText[i] = "hit"
           /\ MtPatterns(mtField)[i].kind = "regex"
           /\ ~MtPatterns(mtField)[i].group}

\* C11: no exception leaves the matcher; a rule whose evaluation raises is
\* skipped and the next rule of the field is evaluated; and a field none of
\* whose rules matches (text empty or malformed included) ends with the
\* empty candidate.
C11_NoExceptionEscapes ==
    /\ mtPc # "raised"
    /\ mtPc = "done" =>
          /\ \A i \in MtRaisers \cap mtTried :
                 i < Len(MtPatterns(mtField)) => i + 1 \in mtTried
          /\ (\A i \in 1..Len(MtPatterns(mtField)) : mtText[i] \in {"none", "TypeError"})
                 => /\ mtValue = ""
                    /\ mtTried = 1..Len(MtPatterns(mtField))
                    /\ IsEmptyResult(mtFields[mtField])

\* the text is not a string, every rule of the field raised, and the field
\* was stored empty
C11_Witness ==
    /\ mtPc = "done"
    /\ mtField = "DIRECCION"
    /\ \A i \in 1..Len(MtPatterns(mtField)) : mtText[i] = "TypeError"
    /\ mtTried = 1..Len(MtPatterns(mtField))
    /\ IsEmptyResult(mtFields[mtField])

-----------------------------------------------------------------------------
(* Text Normalizer claims.                                                 *)

\* C12: the Text Normalizer is idempotent: cleaning a value that is already
\* the result of cleaning returns it unchanged, whatever the raw value held
\* (replacement characters, zero-width spaces, combining marks, quotes,
\* whitespace runs).
C12_Idempotent ==
    nmImpl = "clean_text_value" =>
        \A k \in 2..Len(nmOut) : nmOut[k] = nmOut[k - 1]

\* ASCII letters and digits
AsciiAlnum ==
    Digits \cup {"a", "g", "i", "l", "o", "s",
                 "A", "B", "C", "G", "I", "N", "O", "R", "S", "T", "Z"}

\* letters, digits and single interior spaces, no leading or trailing space
CleanAscii(s) ==
    /\ s # <<>>
    /\ \A i \in 1..Len(s) : s[i] \in AsciiAlnum \cup {" "}
    /\ s[1] # " " /\ s[Len(s)] # " "
    /\ \A i \in 1..(Len(s) - 1) : ~(s[i] = " " /\ s[i + 1] = " ")

\* C13: a clean ASCII value (letters, digits, single interior spaces, no
\* leading or trailing whitespace) comes out of the Text Normalizer
\* identical; in particular no letter of it is turned into a digit.
C13_CleanAsciiUnchanged ==
    (nmOut # <<>> /\ CleanAscii(nmInput)) => nmOut[1] = nmInput

(***************************************************************************)
(* Page OCR Driver: OCRToCSV.extract_text_from_image and process_pdf of    *)
(* ocr_to_csv.py, with the try/except of process_all_pdfs around them, and *)
(* ocr_image_to_text and process_single_pdf of                             *)
(* process_indisa_unified_v1.py.                                           *)
(*                                                                         *)
(* A text is the sequence of its lines (<<>> is the empty string).  A page *)
(* image is named by what the imaging library and the engine do with it:   *)
(*   "good"     every engine call reads the four lines of the page         *)
(*   "partial"  the calls differ: one raises, one reads whitespace, two    *)
(*              read different parts of the page                           *)
(*   "blank"    every call reads whitespace                                *)
(*   "tessfail" every engine call raises                                   *)
(*   "bad"      Image.open raises (the file is not an image)               *)
(***************************************************************************)
OcKinds == {"good", "partial", "blank", "tessfail", "bad"}

\* the pages the claim calls failed: no configuration succeeds, or no image opens
OcFailed == {"tessfail", "bad"}

MaxOcrPages == 2

OcDocs == UNION {[1..n -> OcKinds] : n \in 0..MaxOcrPages}

L_RUT   == "RUT 12.345.678-5"
L_NAME  == "JUAN PEREZ SOTO"
L_MONTO == "$ 182.000"
L_FECHA == "01/02/2024"
L_BLANK == "  "
L_ERR_OPEN == "[OCR_ERROR] cannot identify image file 'bad.png'"
L_ERR_TESS == "[OCR_ERROR] (1, 'Error opening data file')"

\* len(line)
LineLen(line) ==
    CASE line = L_RUT      -> 16
      [] line = L_NAME     -> 15
      [] line = L_MONTO    -> 9
      [] line = L_FECHA    -> 10
      [] line = L_BLANK    -> 2
      [] line = L_ERR_OPEN -> 48
      [] line = L_ERR_TESS -> 42

\* the Tesseract configurations of extract_text_from_image, in its order
configs == <<"--oem 3 --psm 6", "--oem 3 --psm 4", "--oem 3 --psm 3", "--oem 1 --psm 6">>

\* ocr_image_to_text passes no configuration
NoConfig == ""

\* Image.open(path): TRUE when it raises
Image_open_raises(kind) == kind = "bad"

\* pytesseract.image_to_string(image, lang, config): the exception or the text
image_to_string(kind, config) ==
    CASE kind = "tessfail" -> [raises |-> TRUE, text |-> <<>>]
      [] kind = "blank"    -> [raises |-> FALSE, text |-> <<L_BLANK>>]
      [] kind = "good"     -> [raises |-> FALSE, text |-> <<L_RUT, L_NAME, L_MONTO, L_FECHA>>]
      [] kind = "partial"  ->
            CASE config = configs[1] -> [raises |-> TRUE, text |-> <<>>]
              [] config = configs[3] -> [raises |-> FALSE, text |-> <<L_BLANK>>]
              [] config = configs[4] -> [raises |-> FALSE, text |-> <<L_NAME, L_MONTO>>]
              [] OTHER               -> [raises |-> FALSE, text |-> <<L_RUT, L_NAME>>]

\* text.strip(): the whitespace lines of the sample texts are at their ends
StripText(text) == SelectSeq(text, LAMBDA line : line # L_BLANK)

\* sorted(all_lines, key=len, reverse=True); the sample lines differ in length
RECURSIVE LongestFirst(_)
LongestFirst(lines) ==
    IF lines = {} THEN <<>>
    ELSE LET l == CHOOSE x \in lines : \A y \in lines : LineLen(y) <= LineLen(x)
         IN  <<l>> \o LongestFirst(lines \ {l})

\* the end of extract_text_from_image: the unique lines of every result, or ""
combined_text(text_results) ==
    IF text_results # <<>>
    THEN LongestFirst(UNION {SeqToSet(text_results[i]) : i \in 1..Len(text_results)})
    ELSE <<>>

\* the lines of the page texts, one page after the other
RECURSIVE JoinPages(_)
JoinPages(texts) ==
    IF texts = <<>> THEN <<>> ELSE Head(texts) \o JoinPages(Tail(texts))

\* OCRToCSV.extract_fields_from_text on the sample lines, after
\* clean_extracted_value (which turns the letters of the name into digits)
ocr_extract_fields(lines) ==
    [NOMBRE            |-> IF L_NAME  \in SeqToSet(lines) THEN "JU4N PERE2 5070" ELSE "",
     FECHA_SUSCRIPCION |-> IF L_FECHA \in SeqToSet(lines) THEN "01/02/2024" ELSE "",
     MONTO_CREDITO     |-> IF L_MONTO \in SeqToSet(lines) THEN "182000" ELSE ""]

\* OCRToCSV.create_csv_row: the columns the sample lines can fill, and PRODUCTO
ocr_create_csv_row(fields) ==
    [RUT |-> "", DV |-> "", NOMBRE |-> fields.NOMBRE,
     FECHA_SUSCRIPCION |-> fields.FECHA_SUSCRIPCION,
     MONTO_CREDITO |-> fields.MONTO_CREDITO, PRODUCTO |-> "CC"]

\* OCRToCSV.create_empty_row
ocr_create_empty_row ==
    [RUT |-> "", DV |-> "", NOMBRE |-> "", FECHA_SUSCRIPCION |-> "",
     MONTO_CREDITO |-> "", PRODUCTO |-> "CREDITO CONSUMO"]

\* process_indisa_unified_v1.parse_rut: the first RUT_PATTERNS match, validated
indisa_parse_rut(lines) ==
    IF L_RUT \in SeqToSet(lines) THEN <<"12345678", "5">> ELSE <<"", "">>

\* process_indisa_unified_v1.parse_monto: "$" or MONTO label first, else the
\* largest number written with thousands separators
indisa_parse_monto(lines) ==
    IF L_MONTO \in SeqToSet(lines) THEN "182.000"
    ELSE IF L_RUT \in SeqToSet(lines) THEN "12.345.678"
    ELSE ""

\* process_indisa_unified_v1.parse_fecha
indisa_parse_fecha(lines) ==
    IF L_FECHA \in SeqToSet(lines) THEN "01-02-2024" ELSE ""

\* re.sub(r"[^A-ZÁÉÍÓÚÑ\s]", "", line.upper()).strip() of extract_name_guess
NameCand(line) ==
    CASE line = L_RUT      -> "RUT"
      [] line = L_NAME     -> "JUAN PEREZ SOTO"
      [] line = L_ERR_OPEN -> "OCRERROR CANNOT IDENTIFY IMAGE FILE BADPNG"
      [] line = L_ERR_TESS -> "OCRERROR  ERROR OPENING DATA FILE"
      [] OTHER             -> ""

\* cand and len(cand.split()) >= 2 and len(cand) <= 60
NameCandOk(line) == NameCand(line) \notin {"", "RUT"}

\* process_indisa_unified_v1.extract_name_guess
extract_name_guess(text) ==
    LET lines == StripText(text)
        near  == {<<i, j>> \in (1..Len(lines)) \X (0..Len(lines) + 1) :
                    /\ lines[i] = L_RUT
                    /\ j \in {i - 1, i + 1}
                    /\ j \in 1..Len(lines)
                    /\ NameCandOk(lines[j])}
        far   == {j \in 1..Len(lines) : j <= 10 /\ NameCandOk(lines[j])}
    IN  IF near # {}
        THEN LET i == CHOOSE i \in {p[1] : p \in near} : \A q \in near : i <= q[1]
                 j == CHOOSE j \in {p[2] : p \in near} :
                        /\ <<i, j>> \in near
                        /\ \A q \in near : q[1] = i => j <= q[2]
             IN  NameCand(lines[j])
        ELSE IF far # {}
        THEN NameCand(lines[CHOOSE j \in far : \A k \in far : j <= k])
        ELSE ""

\* the row process_single_pdf builds from the joined page texts
indisa_row(joined) ==
    [RUT |-> indisa_parse_rut(joined)[1], DV |-> indisa_parse_rut(joined)[2],
     NOMBRE |-> extract_name_guess(joined),
     FECHA_SUSCRIPCION |-> indisa_parse_fecha(joined),
     MONTO_CREDITO |-> indisa_parse_monto(joined), PRODUCTO |-> "CHEQUE"]

\* process_indisa_unified_v1.ocr_image_to_text
ocr_image_to_text(kind) ==
    IF Image_open_raises(kind) THEN <<L_ERR_OPEN>>
    ELSE IF image_to_string(kind, NoConfig).raises THEN <<L_ERR_TESS>>
    ELSE image_to_string(kind, NoConfig).text

InitOcr ==
    /\ ocImpl \in {"ocr_to_csv", "indisa"}
    /\ ocPages \in OcDocs
    /\ ocIdx = 1
    /\ ocCfg = 1
    /\ ocResults = <<>>
    /\ ocTexts = <<>>
    /\ ocRow = <<>>
    /\ ocPc = "page"
    /\ IdleBut("ocr")

\* process_pdf: "if not image_paths: return self.create_empty_row(...)"
OcrNoPages ==
    /\ ocImpl = "ocr_to_csv" /\ ocPc = "page" /\ ocPages = <<>>
    /\ ocRow' = ocr_create_empty_row
    /\ ocPc' = "done"
    /\ UNCHANGED <<ocImpl, ocPages, ocIdx, ocCfg, ocResults, ocTexts, notOcr>>

\* extract_text_from_image up to its loop: Image.open stands before the try
OcrOpenImage ==
    /\ ocImpl = "ocr_to_csv" /\ ocPc = "page" /\ ocIdx <= Len(ocPages)
    /\ IF Image_open_raises(ocPages[ocIdx])
       THEN ocPc' = "raised"
       ELSE ocPc' = "configs"
    /\ ocCfg' = 1
    /\ ocResults' = <<>>
    /\ UNCHANGED <<ocImpl, ocPages, ocIdx, ocTexts, ocRow, notOcr>>

\* one turn of "for config in configs": try, strip, keep the text if any
OcrTryConfig ==
    /\ ocImpl = "ocr_to_csv" /\ ocPc = "configs" /\ ocCfg <= Len(configs)
    /\ LET r    == image_to_string(ocPages[ocIdx], configs[ocCfg])
           text == StripText(r.text)
       IN  ocResults' = IF ~r.raises /\ text # <<>> THEN Append(ocResults, text)
                        ELSE ocResults
    /\ ocCfg' = ocCfg + 1
    /\ UNCHANGED <<ocImpl, ocPages, ocIdx, ocTexts, ocRow, ocPc, notOcr>>

\* the end of extract_text_from_image, and process_pdf taking the page text
OcrCombine ==
    /\ ocImpl = "ocr_to_csv" /\ ocPc = "configs" /\ ocCfg > Len(configs)
    /\ ocTexts' = Append(ocTexts, combined_text(ocResults))
    /\ ocIdx' = ocIdx + 1
    /\ ocPc' = "page"
    /\ UNCHANGED <<ocImpl, ocPages, ocCfg, ocResults, ocRow, notOcr>>

\* process_pdf after its page loop
OcrFields ==
    /\ ocImpl = "ocr_to_csv" /\ ocPc = "page"
    /\ ocPages # <<>> /\ ocIdx > Len(ocPages)
    /\ ocRow' = ocr_create_csv_row(ocr_extract_fields(JoinPages(ocTexts)))
    /\ ocPc' = "done"
    /\ UNCHANGED <<ocImpl, ocPages, ocIdx, ocCfg, ocResults, ocTexts, notOcr>>

\* process_all_pdfs: "except Exception" around process_pdf
OcrCaught ==
    /\ ocImpl = "ocr_to_csv" /\ ocPc = "raised"
    /\ ocRow' = ocr_create_empty_row
    /\ ocPc' = "caught"
    /\ UNCHANGED <<ocImpl, ocPages, ocIdx, ocCfg, ocResults, ocTexts, notOcr>>

\* process_single_pdf: one turn of "for img in images"
IndisaOcrPage ==
    /\ ocImpl = "indisa" /\ ocPc = "page" /\ ocIdx <= Len(ocPages)
    /\ ocTexts' = Append(ocTexts, ocr_image_to_text(ocPages[ocIdx]))
    /\ ocIdx' = ocIdx + 1
    /\ UNCHANGED <<ocImpl, ocPages, ocCfg, ocResults, ocRow, ocPc, notOcr>>

\* process_single_pdf after its page loop
IndisaFields ==
    /\ ocImpl = "indisa" /\ ocPc = "page" /\ ocIdx > Len(ocPages)
    /\ ocRow' = indisa_row(JoinPages(ocTexts))
    /\ ocPc' = "done"
    /\ UNCHANGED <<ocImpl, ocPages, ocIdx, ocCfg, ocResults, ocTexts, notOcr>>

NextOcr ==
    \/ OcrNoPages
    \/ OcrOpenImage
    \/ OcrTryConfig
    \/ OcrCombine
    \/ OcrFields
    \/ OcrCaught
    \/ IndisaOcrPage
    \/ IndisaFields

SpecOcr == InitOcr /\ [][NextOcr]_vars

(* ---- Claims about the page OCR driver ---- *)

\* the pages of the document that are not failed, in their order
OcSurvivors == SelectSeq(ocPages, LAMBDA kind : kind \notin OcFailed)

\* the record the document's readable pages give on their own
OcRowWithoutFailed ==
    IF ocImpl = "indisa"
    THEN indisa_row(JoinPages([i \in 1..Len(OcSurvivors) |-> ocr_image_to_text(OcSurvivors[i])]))
    ELSE IF ocPages = <<>> THEN ocr_create_empty_row
    ELSE ocr_create_csv_row(ocr_extract_fields(JoinPages(
            [i \in 1..Len(OcSurvivors) |->
                combined_text(SelectSeq(
                    [c \in 1..Len(configs) |->
                        StripText(image_to_string(OcSurvivors[i], configs[c]).text)],
                    LAMBDA t : t # <<>>))])))

\* C17: a page whose OCR fails (no configuration succeeds, or the image does
\* not open) has the empty string for its text and adds no field value to the
\* record, and its failure never reaches the batch loop as an exception.
C17_FailedPageIsEmpty ==
    /\ \A i \in 1..Len(ocTexts) : ocPages[i] \in OcFailed => ocTexts[i] = <<>>
    /\ ocPc \notin {"raised", "caught"}
    /\ ocPc = "done" => ocRow = OcRowWithoutFailed

(***************************************************************************)
(* Document Classifier: detect_document_type of process_itau_unified_v1.py *)
(* and of process_santander_unified_v1.py.                                 *)
(*                                                                         *)
(* A page text is one of the sample phrases below ("" for a page without   *)
(* text); the pages are joined with line breaks, which \s+ matches, so a   *)
(* pattern can match across the end of a page.  PhraseHas gives the        *)
(* indicator strings found in the upper-cased phrase and PhraseMatches the *)
(* patterns that match inside it:                                          *)
(*   "en_cuotas"   \ben\s+\d+\s+cuotas\b                                   *)
(*   "pagare_cc"   pagar[ée]?\s+cr[ée]dito\s+de?\s+consumo                 *)
(*   "pagare"      pagar[ée]|me\s+obligo\s+a\s+pagar                       *)
(*   "nombre"      Nombre\s+y\s+Apellidos\s+del\s+deudor                   *)
(*   "cedula"      C[eé]dula\s+de\s+Identidad                              *)
(***************************************************************************)
ClPhrases ==
    {"", "Pagaré", "PAGARE", "me obligo a pagar", "vencimiento", "24 cuotas",
     "pagadero en 24 cuotas", "Crédito de Consumo", "tasa de interés",
     "Nombre y Apellidos del deudor", "Cédula de Identidad",
     "Pagaré Crédito de Consumo", "PAGARE CREDITO DE CONSUMO", "PAGARE CREDITO CONSUMO",
     "Santiago"}

MaxClsPages == 3

ClDocs == UNION {[1..n -> ClPhrases] : n \in 0..MaxClsPages}

\* the indicator strings s with "s in phrase.upper()"
PhraseHas(phrase) ==
    CASE phrase = "Pagaré"                    -> {"PAGARÉ"}
      [] phrase = "PAGARE"                    -> {"PAGARE"}
      [] phrase = "me obligo a pagar"         -> {"ME OBLIGO A PAGAR"}
      [] phrase = "vencimiento"               -> {"VENCIMIENTO"}
      [] phrase = "24 cuotas"                 -> {"CUOTAS"}
      [] phrase = "pagadero en 24 cuotas"     -> {"CUOTAS"}
      [] phrase = "Crédito de Consumo"        -> {"CRÉDITO DE CONSUMO"}
      [] phrase = "tasa de interés"           -> {"TASA DE INTERÉS"}
      [] phrase = "Pagaré Crédito de Consumo" -> {"PAGARÉ", "CRÉDITO DE CONSUMO"}
      [] phrase = "PAGARE CREDITO DE CONSUMO" -> {"PAGARE", "CREDITO DE CONSUMO"}
      [] phrase = "PAGARE CREDITO CONSUMO"    -> {"PAGARE"}
      [] OTHER                                -> {}

\* the patterns that re.search finds in the phrase, ignoring case
PhraseMatches(phrase) ==
    CASE phrase = "Pagaré"                        -> {"pagare"}
      [] phrase = "PAGARE"                        -> {"pagare"}
      [] phrase = "me obligo a pagar"             -> {"pagare"}
      [] phrase = "pagadero en 24 cuotas"         -> {"en_cuotas"}
      [] phrase = "Nombre y Apellidos del deudor" -> {"nombre"}
      [] phrase = "Cédula de Identidad"           -> {"cedula"}
      [] phrase = "Pagaré Crédito de Consumo"     -> {"pagare", "pagare_cc"}
      [] phrase = "PAGARE CREDITO DE CONSUMO"     -> {"pagare", "pagare_cc"}
      [] phrase = "PAGARE CREDITO CONSUMO"        -> {"pagare"}
      [] OTHER                                    -> {}

\* "indicator in combined_up"
TextHas(text_pages) == UNION {PhraseHas(text_pages[i]) : i \in 1..Len(text_pages)}

\* "pagar[ée]?\s+cr[ée]dito\s+de?\s+consumo" across line breaks: a page that
\* ends in "pagar", "pagare" or "pagaré", then one that starts with the rest
AcrossPages(text_pages) ==
    LET lines == SelectSeq(text_pages, LAMBDA phrase : phrase # "")
    IN  IF \E i \in 1..Len(lines) - 1 :
              /\ lines[i] \in {"Pagaré", "PAGARE", "me obligo a pagar"}
              /\ lines[i + 1] = "Crédito de Consumo"
        THEN {"pagare_cc"}
        ELSE {}

\* re.search(pattern, combined_text, re.IGNORECASE)
TextMatches(text_pages) ==
    UNION {PhraseMatches(text_pages[i]) : i \in 1..Len(text_pages)}
        \cup AcrossPages(text_pages)

\* process_itau_unified_v1: pp_indicators and cc_indicators
pp_indicators ==
    {"PAGARÉ", "PAGARE", "PAGARÁ", "DOCUMENTO MERCANTIL", "VALOR RECIBIDO",
     "CONTRAVALOR RECIBIDO", "ME OBLIGO A PAGAR", "VENCIMIENTO"}
cc_indicators ==
    {"CRÉDITO DE CONSUMO", "CREDITO DE CONSUMO", "LÍNEA DE CRÉDITO",
     "CONTRATO DE MUTUO", "CUOTAS", "TASA DE INTERÉS", "CRONOGRAMA",
     "TABLA DE DESARROLLO", "PLAN DE PAGOS"}

\* process_santander_unified_v1: pp_ind and cc_ind
pp_ind == {"PAGARÉ", "PAGARE", "DOCUMENTO MERCANTIL", "ME OBLIGO A PAGAR"}
cc_ind == {"CRÉDITO DE CONSUMO", "CREDITO DE CONSUMO", "CUOTAS", "TASA DE INTERÉS",
           "PLAN DE PAGOS"}

Bonus(cond, points) == IF cond THEN points ELSE 0

\* the scores of process_itau_unified_v1.detect_document_type: <<pp_score, cc_score>>
ItauDocScores(text_pages) ==
    LET has     == TextHas(text_pages)
        matches == TextMatches(text_pages)
    IN  << Cardinality(pp_indicators \cap has)
             + Bonus("pagare" \in matches, 3),
           Cardinality(cc_indicators \cap has)
             + Bonus("en_cuotas" \in matches, 3)
             + Bonus("pagare_cc" \in matches, 10)
             + Bonus("nombre" \in matches /\ "cedula" \in matches, 4) >>

\* the scores of process_santander_unified_v1.detect_document_type: <<pp, cc>>
SantanderDocScores(text_pages) ==
    LET has     == TextHas(text_pages)
        matches == TextMatches(text_pages)
    IN  << Cardinality(pp_ind \cap has),
           Cardinality(cc_ind \cap has) + Bonus("en_cuotas" \in matches, 2) >>

\* the last line of detect_document_type with ">=" in place of ">"
DocTypeOf_ties_pp(scores) == IF scores[1] >= scores[2] THEN "PP" ELSE "CC"

\* "PP" if pp_score > cc_score else "CC"
DocTypeOf(scores) == IF scores[1] > scores[2] THEN "PP" ELSE "CC"

detect_document_type(text_pages) == DocTypeOf(ItauDocScores(text_pages))

santander_detect_document_type(text_pages) == DocTypeOf(SantanderDocScores(text_pages))

InitClassify ==
    /\ clImpl = "none"
    /\ clPages \in ClDocs
    /\ clScores = <<>>
    /\ clLabel = ""
    /\ IdleBut("classify")

\* process_itau_unified_v1.detect_document_type(text_pages)
ClassifyItau ==
    /\ clImpl = "none"
    /\ clImpl' = "itau"
    /\ clScores' = ItauDocScores(clPages)
    /\ clLabel' = detect_document_type(clPages)
    /\ UNCHANGED <<clPages, notClassify>>

\* process_santander_unified_v1.detect_document_type(text_pages)
ClassifySantander ==
    /\ clImpl = "none"
    /\ clImpl' = "santander"
    /\ clScores' = SantanderDocScores(clPages)
    /\ clLabel' = santander_detect_document_type(clPages)
    /\ UNCHANGED <<clPages, notClassify>>

NextClassify == ClassifyItau \/ ClassifySantander

SpecClassify == InitClassify /\ [][NextClassify]_vars

(* ---- Claims about the document classifier ---- *)

\* C18: the label is PP only when the PP score is strictly greater than the
\* CC score; when the scores are equal (both zero for empty text or no page
\* included) the label is CC.
C18_PpOnlyWhenStrictlyGreater ==
    clImpl # "none" =>
        /\ clLabel \in {"PP", "CC"}
        /\ clLabel = "PP" => clScores[1] > clScores[2]
        /\ clScores[1] = clScores[2] => clLabel = "CC"
        /\ (clPages = <<>> \/ \A i \in 1..Len(clPages) : clPages[i] = "") =>
              clScores = <<0, 0>> /\ clLabel = "CC"

\* a tie between two non-zero scores was labelled CC
C18_Witness ==
    /\ clImpl # "none"
    /\ clScores[1] = clScores[2] /\ clScores[1] > 0
    /\ clLabel = "CC"

(***************************************************************************)
(* RUT Validator on arbitrary strings: rut_calc_dv and                     *)
(* normalize_rut_and_dv (process_itau_auto_v2.py), rut_calc_dv and         *)
(* is_valid_rut (process_santander_unified_v1.py), calculate_dv and        *)
(* validate_rut_dv (geocoding_utils.py), called on strings that need not   *)
(* be digit strings.  "SUP2" is the superscript two U+00B2: str.isdigit()  *)
(* accepts it, int() and the pattern \d do not.                            *)
(***************************************************************************)
RvMaxLen == 3
RvAlphabet == {"1", "6", "k", ".", "SUP2"}
RvDigitsInputs == SeqsUpTo(RvAlphabet, RvMaxLen)
RvDvInputs == {<<>>, <<"k">>, <<"K">>, <<"9">>, <<"3">>, <<" ", "k">>}

\* str.isdigit()
str_isdigit(s) == s # <<>> /\ \A i \in 1..Len(s) : s[i] \in Digits \cup {"SUP2"}

\* int(d) for a character of the string raises ValueError
int_raises(s) == \E i \in 1..Len(s) : s[i] \notin Digits

\* rut_calc_dv / calculate_dv as called: "if not num_str.isdigit(): return ''",
\* then int() on every character, then the implementation's modulo-11 rule
CalcOutcome(impl, num_str) ==
    IF ~str_isdigit(num_str) THEN [raises |-> FALSE, value |-> <<>>]
    ELSE IF int_raises(num_str) THEN [raises |-> TRUE, value |-> <<>>]
    ELSE [raises |-> FALSE,
          value  |-> CASE impl = "auto"      -> rut_calc_dv(num_str)
                       [] impl = "santander" -> santander_rut_calc_dv(num_str)
                       [] impl = "geo"       -> calculate_dv(num_str)]

\* validate: the "valid" member of normalize_rut_and_dv and of validate_rut_dv,
\* and is_valid_rut
ValidOutcome(impl, rut, dv) ==
    CASE impl = "auto"      -> normalize_rut_and_dv(rut, dv)[4]
      [] impl = "santander" -> is_valid_rut(rut, dv)
      [] impl = "geo"       -> validate_rut_dv(rut, dv)[3]

InitRutCheck ==
    /\ rvImpl = "none"
    /\ rvDigits \in RvDigitsInputs
    /\ rvDv \in RvDvInputs
    /\ rvCalc = <<>>
    /\ rvValid = FALSE
    /\ rvPc = "ready"
    /\ IdleBut("rutcheck")

\* computeCheckDigit(digits) returning
RvCompute ==
    /\ rvPc = "ready"
    /\ \E impl \in {"auto", "santander", "geo"} :
          /\ ~CalcOutcome(impl, rvDigits).raises
          /\ rvImpl' = impl
          /\ rvCalc' = CalcOutcome(impl, rvDigits).value
    /\ rvPc' = "computed"
    /\ UNCHANGED <<rvDigits, rvDv, rvValid, notRutCheck>>

\* computeCheckDigit(digits) raising ValueError
RvComputeRaises ==
    /\ rvPc = "ready"
    /\ \E impl \in {"auto", "santander", "geo"} :
          /\ CalcOutcome(impl, rvDigits).raises
          /\ rvImpl' = impl
    /\ rvPc' = "raised"
    /\ UNCHANGED <<rvDigits, rvDv, rvCalc, rvValid, notRutCheck>>

\* validate(digits, checkDigit)
RvValidate ==
    /\ rvPc = "ready"
    /\ \E impl \in {"auto", "santander", "geo"} :
          /\ rvImpl' = impl
          /\ rvValid' = ValidOutcome(impl, rvDigits, rvDv)
    /\ rvPc' = "validated"
    /\ UNCHANGED <<rvDigits, rvDv, rvCalc, notRutCheck>>

NextRutCheck == RvCompute \/ RvComputeRaises \/ RvValidate

SpecRutCheck == InitRutCheck /\ [][NextRutCheck]_vars

(* ---- Claims about the RUT validator on arbitrary strings ---- *)

\* C19: validate returns false when digits is empty or has a non-digit
\* character, and computeCheckDigit returns "" for such input; neither
\* function raises, whatever the two strings; the check digit is compared
\* without regard to letter case ("k" and "K" are equivalent).
C19_TotalAndRejecting ==
    /\ rvPc # "raised"
    /\ (rvPc = "computed" /\ ~IsDigitStr(rvDigits)) => rvCalc = <<>>
    /\ (rvPc = "validated" /\ ~IsDigitStr(rvDigits)) => rvValid = FALSE
    /\ rvPc = "validated" =>
          /\ rvValid = ValidOutcome(rvImpl, rvDigits, Upper(rvDv))
          /\ rvValid = ValidOutcome(rvImpl, rvDigits, Lower(rvDv))

(***************************************************************************)
(* Check-digit mismatch handling: the RUT/DV step of                       *)
(* clean_and_normalize_row (process_itau_auto_v2.py) with its strict_dv    *)
(* option and its "rut_invalid" counter, and parse_rut of                  *)
(* process_indisa_unified_v1.py, which has neither an option nor a         *)
(* counter.  A record is read as the digits and the check digit the        *)
(* patterns captured.                                                      *)
(***************************************************************************)
MaxDvRows == 2

Rut12345678 == <<"1", "2", "3", "4", "5", "6", "7", "8">>
Rut1111119 == <<"1", "1", "1", "1", "1", "1", "9">>

DvReadPairs ==
    [rut : {Rut12345678, Rut4499116, Rut1111119},
     dv  : {<<"5">>, <<"9">>, <<"0">>, <<"k">>, <<"K">>}]

\* clean_and_normalize_row: "if rut_num and dv_clean and not ok" adds one to
\* stats["rut_invalid"]
rut_invalid(read) ==
    LET n == normalize_rut_and_dv(read.rut, read.dv)
    IN  IF n[1] # <<>> /\ n[2] # <<>> /\ ~n[4] THEN 1 ELSE 0

\* process_indisa_unified_v1.parse_rut on the captured groups:
\* dv_raw = m.group(2).upper(), then "if rut_ok: return rut_ok, dv_ok"
parse_rut(rut_raw, dv_raw) ==
    LET v == validate_rut_dv(FilterSeq(rut_raw, Digits), Upper(dv_raw))
    IN  IF v[1] # <<>> THEN [RUT |-> v[1], DV |-> v[2]] ELSE [RUT |-> <<>>, DV |-> <<>>]

InitDvPolicy ==
    /\ dvImpl \in {"auto", "indisa"}
    /\ dvStrict \in (IF dvImpl = "auto" THEN BOOLEAN ELSE {FALSE})
    /\ dvRead \in UNION {[1..n -> DvReadPairs] : n \in 0..MaxDvRows}
    /\ dvRows = <<>>
    /\ dvStats = 0
    /\ IdleBut("dvpolicy")

\* process(): clean_and_normalize_row on the next row
DvCleanRow ==
    /\ dvImpl = "auto" /\ Len(dvRows) < Len(dvRead)
    /\ LET read == dvRead[Len(dvRows) + 1]
       IN  /\ dvRows' = Append(dvRows,
                  clean_and_normalize_row([RUT |-> read.rut, DV |-> read.dv], dvStrict))
           /\ dvStats' = dvStats + rut_invalid(read)
    /\ UNCHANGED <<dvImpl, dvStrict, dvRead, notDvPolicy>>

\* process_single_pdf: parse_rut on the next document
DvParseRut ==
    /\ dvImpl = "indisa" /\ Len(dvRows) < Len(dvRead)
    /\ LET read == dvRead[Len(dvRows) + 1]
       IN  dvRows' = Append(dvRows, parse_rut(read.rut, read.dv))
    /\ UNCHANGED <<dvImpl, dvStrict, dvRead, dvStats, notDvPolicy>>

NextDvPolicy == DvCleanRow \/ DvParseRut

SpecDvPolicy == InitDvPolicy /\ [][NextDvPolicy]_vars

(* ---- Claims about check-digit mismatch handling ---- *)

\* the check digit read for record i differs from the recomputed one
DvMismatch(i) == Upper(dvRead[i].dv) # calculate_dv(dvRead[i].rut)

\* C20: a check digit that does not match the recomputed one is counted, and
\* without strict mode the record keeps the check digit that was read; the
\* recomputed value replaces it only under strict mode.
C20_MismatchCountedNotOverwritten ==
    /\ dvStats = Cardinality({i \in 1..Len(dvRows) : DvMismatch(i)})
    /\ \A i \in 1..Len(dvRows) :
          /\ (DvMismatch(i) /\ ~dvStrict) => dvRows[i]["DV"] = Upper(dvRead[i].dv)
          /\ dvRows[i]["DV"] # Upper(dvRead[i].dv) => dvStrict

(* ---- Reconciler row loop: process() over the rows of one input file ---- *)

MaxMlRows == 2

\* a row or a trace block with its identity columns given
MlRow(rut, dv, op, nombre, fecha) ==
    [MgRow(op, nombre, fecha, <<>>) EXCEPT !["RUT"] = rut, !["DV"] = dv]

\* the rows read: with and without identity, operation id and name
MlRows ==
    {MlRow(id[1], id[2], op, n, <<>>) :
        id \in {<<<<>>, <<>>>>, <<MgRut, MgDv>>},
        op \in MgOperaciones,
        n \in {<<>>, <<"x">>, <<"a", "ZWSP", "ACUTE">>}}

\* FINAL ROW blocks: one without any key column, one filed under its
\* OPERACION, one filed under RUT-DV-NOMBRE
MlKeyless == MlRow(<<>>, <<>>, <<>>, <<>>, <<"x">>)
MlByOp    == MlRow(MgRut, MgDv, <<"7">>, <<"y">>, <<"x">>)
MlByKey   == MlRow(MgRut, MgDv, <<>>, <<"x">>, <<"x">>)

MlTraces ==
    {<<>>, <<MlKeyless>>, <<MlByOp>>, <<MlByKey>>, <<MlByOp, MlByKey>>, <<MlKeyless, MlByOp>>}

InitMergeLoop ==
    /\ mlTrace \in MlTraces
    /\ mlMode \in {"none", "only_blanks", "prefer_debug"}
    /\ mlRows \in SeqsUpTo(MlRows, MaxMlRows)
    /\ mlIdx = 0
    /\ mlDebugMap = <<>>
    /\ mlRow = <<>>
    /\ mlPc = "start"
    /\ mlStats = [debug_merge_hits |-> 0, debug_merge_misses |-> 0]
    /\ mlFill = <<>>
    /\ mlBefore = <<>>
    /\ mlOut = <<>>
    /\ IdleBut("mergeloop")

\* process(): debug_map = parse_debug_final_rows(f.read()), before the loop
MlLoadDebug ==
    /\ mlPc = "start"
    /\ mlDebugMap' = parse_debug_final_rows(mlTrace, <<>>)
    /\ mlPc' = "read"
    /\ UNCHANGED <<mlTrace, mlMode, mlRows, mlIdx, mlRow, mlStats, mlFill, mlBefore, mlOut,
                   notMergeLoop>>

\* process(): for raw in reader: ... row = clean_and_normalize_row(row, ...)
MlCleanRow ==
    /\ mlPc = "read" /\ mlIdx < Len(mlRows)
    /\ mlRow' = clean_and_normalize_row(mlRows[mlIdx + 1], FALSE)
    /\ mlPc' = "cleaned"
    /\ UNCHANGED <<mlTrace, mlMode, mlRows, mlIdx, mlDebugMap, mlStats, mlFill, mlBefore,
                   mlOut, notMergeLoop>>

\* process(): row = merge_from_debug(row, debug_map, fill_from_debug, stats_fill, stats)
MlMergeRow ==
    /\ mlPc = "cleaned"
    /\ mlBefore' = Append(mlBefore, mlRow)
    /\ mlRow' = merge_from_debug(mlRow, mlDebugMap, mlMode)
    /\ mlStats' = MergeStats(mlRow, mlDebugMap, mlMode, mlStats)
    /\ mlFill' = MergeFill(mlRow, mlDebugMap, mlMode, mlFill)
    /\ mlPc' = "merged"
    /\ UNCHANGED <<mlTrace, mlMode, mlRows, mlIdx, mlDebugMap, mlOut, notMergeLoop>>

\* process(): the row's canonical columns are appended; next row
MlAppendRow ==
    /\ mlPc = "merged"
    /\ mlOut' = Append(mlOut, [h \in OutFields |-> mlRow[h]])
    /\ mlIdx' = mlIdx + 1
    /\ mlPc' = "read"
    /\ UNCHANGED <<mlTrace, mlMode, mlRows, mlDebugMap, mlRow, mlStats, mlFill, mlBefore,
                   notMergeLoop>>

NextMergeLoop == MlLoadDebug \/ MlCleanRow \/ MlMergeRow \/ MlAppendRow

SpecMergeLoop == InitMergeLoop /\ [][NextMergeLoop]_vars

(* ---- Claims about the reconciler's counters ---- *)

\* the rows that have been through merge_from_debug
MlHandled == Len(mlBefore)

\* the number of rows in which merge_from_debug assigned column f
MlAssigned(f) ==
    Cardinality({i \in 1..Len(mlBefore) :
        /\ ~MergeSkipped(mlDebugMap, mlMode)
        /\ MergeCand(mlBefore[i], mlDebugMap) # <<>>
        /\ MergeAssigns(mlBefore[i], MergeCand(mlBefore[i], mlDebugMap), mlMode, f)})

MlFillOf(f) == IF f \in DOMAIN mlFill THEN mlFill[f] ELSE 0

\* the columns of row i as they were appended equal those that entered the merge
MlRowUntouched(i) == \A h \in OutFields : mlOut[i][h] = mlBefore[i][h]

\* no row was changed by merge_from_debug
MlNoRowChanged ==
    /\ \A i \in 1..Len(mlOut) : MlRowUntouched(i)
    /\ mlPc = "merged" => mlRow = mlBefore[Len(mlBefore)]

MlCountersZero ==
    /\ mlStats.debug_merge_hits = 0 /\ mlStats.debug_merge_misses = 0
    /\ \A f \in MergeFields : MlFillOf(f) = 0

MlCountersExact ==
    /\ mlStats.debug_merge_hits + mlStats.debug_merge_misses = MlHandled
    /\ \A f \in MergeFields : MlFillOf(f) = MlAssigned(f)

\* C21: with policy only_blanks or prefer_debug and a non-empty trace, hits
\* plus misses equals the number of rows handled and every column's fill
\* count equals the number of assignments of that column; with policy none
\* or an empty trace no row is changed and every counter stays 0.
C21_CountersMatchRows ==
    mlPc \in {"read", "merged"} =>
        IF mlMode # "none" /\ mlTrace # <<>>
        THEN MlCountersExact
        ELSE MlCountersZero /\ MlNoRowChanged

\* the same with "non-empty" read as the test of the code: the trace yields
\* at least one keyed entry
MlCountersMatchRowsOfKeyedTrace ==
    mlPc \in {"read", "merged"} =>
        IF mlMode # "none" /\ DOMAIN mlDebugMap # {}
        THEN MlCountersExact
        ELSE MlCountersZero /\ MlNoRowChanged

\* rows were handled against a trace whose only block carries no key
MlKeylessTraceRun ==
    /\ mlPc = "read" /\ mlIdx = MaxMlRows /\ mlMode # "none"
    /\ mlTrace = <<MlKeyless>>

-----------------------------------------------------------------------------
(* Startup checks: what each entry point tests before its document loop    *)
(* (main and process_pdf_files of process_itau_unified_v1.py; main,         *)
(* OCRToCSV.__init__ and process_all_pdfs of ocr_to_csv.py).                *)

MaxStDocs == 2

\* main and process_all_pdfs stop on an empty folder before the loop; the
\* folders of the model hold at least one PDF
InitStartup ==
    /\ stEntry \in {"main", "api", "csv"}
    /\ stTesseract \in BOOLEAN
    /\ stConfigOk \in BOOLEAN
    /\ stEntry # "csv" => stConfigOk
    /\ stDocs \in SeqsUpTo({"ok", "nopages"}, MaxStDocs)
    /\ stEntry # "api" => stDocs # <<>>
    /\ stNext = 1
    /\ stRasterized = {}
    /\ stRecognized = {}
    /\ stRows = <<>>
    /\ stDiag = "none"
    /\ stPc = "start"
    /\ IdleBut("startup")

StFrame == UNCHANGED <<stEntry, stTesseract, stConfigOk, stDocs, notStartup>>

\* OCRToCSV.load_config: logger.error and sys.exit(1) on any exception
StLoadConfigFails ==
    /\ stPc = "start" /\ stEntry = "csv" /\ ~stConfigOk
    /\ stDiag' = "SystemExit(1)"
    /\ stPc' = "stopped"
    /\ UNCHANGED <<stNext, stRasterized, stRecognized, stRows>>
    /\ StFrame

\* if not TESSERACT_AVAILABLE: main prints and returns, process_pdf_files
\* raises RuntimeError
StNoTesseract ==
    /\ stPc = "start" /\ stEntry \in {"main", "api"} /\ ~stTesseract
    /\ stDiag' = IF stEntry = "main" THEN "printed" ELSE "RuntimeError"
    /\ stPc' = "stopped"
    /\ UNCHANGED <<stNext, stRasterized, stRecognized, stRows>>
    /\ StFrame

\* the loop is entered: main and process_pdf_files with Tesseract available;
\* OCRToCSV with a configuration loaded (setup_tesseract sets the command
\* path if the configured file exists and tests nothing else)
StEnterLoop ==
    /\ stPc = "start"
    /\ IF stEntry = "csv" THEN stConfigOk ELSE stTesseract
    /\ stPc' = "loop"
    /\ UNCHANGED <<stNext, stRasterized, stRecognized, stRows, stDiag>>
    /\ StFrame

\* convert_pdf_to_images / pdf_to_images on the next document; without page
\* images main continues, process_pdf_files assembles the record of no
\* pages, process_pdf returns create_empty_row
StRasterize ==
    /\ stPc = "loop" /\ stNext <= Len(stDocs)
    /\ stRasterized' = stRasterized \cup {stNext}
    /\ IF stDocs[stNext] = "nopages"
       THEN /\ stRows' = IF stEntry = "main" THEN stRows ELSE Append(stRows, stNext)
            /\ stNext' = stNext + 1
            /\ stPc' = "loop"
       ELSE /\ stPc' = "ocr"
            /\ UNCHANGED <<stNext, stRows>>
    /\ UNCHANGED <<stRecognized, stDiag>>
    /\ StFrame

\* ocr_image_to_text / extract_text_from_image on the page images; in
\* extract_text_from_image a failing pytesseract call is caught per
\* configuration and the page text is ""
StRecognize ==
    /\ stPc = "ocr"
    /\ stRecognized' = stRecognized \cup {stNext}
    /\ stPc' = "assemble"
    /\ UNCHANGED <<stNext, stRasterized, stRows, stDiag>>
    /\ StFrame

\* process_document_unified / extract_fields_from_text and create_csv_row:
\* the document's row is appended
StAssemble ==
    /\ stPc = "assemble"
    /\ stRows' = Append(stRows, stNext)
    /\ stNext' = stNext + 1
    /\ stPc' = "loop"
    /\ UNCHANGED <<stRasterized, stRecognized, stDiag>>
    /\ StFrame

\* the table is written
StFinish ==
    /\ stPc = "loop" /\ stNext > Len(stDocs)
    /\ stPc' = "done"
    /\ UNCHANGED <<stNext, stRasterized, stRecognized, stRows, stDiag>>
    /\ StFrame

NextStartup ==
    \/ StLoadConfigFails \/ StNoTesseract \/ StEnterLoop
    \/ StRasterize \/ StRecognize \/ StAssemble \/ StFinish

SpecStartup == InitStartup /\ [][NextStartup]_vars

(* ---- Claims about configuration failures ---- *)

StConfigurationFailure == ~stTesseract \/ ~stConfigOk

\* C22: when the OCR engine is unavailable or the configuration is
\* unreadable, the batch stops before any document is rasterized, recognized
\* or assembled, the caller gets a diagnostic, and no row is produced from
\* any document.
C22_StopsBeforeAnyDocument ==
    StConfigurationFailure =>
        /\ stRasterized = {} /\ stRecognized = {} /\ stRows = <<>>
        /\ stPc \in {"start", "stopped"}
        /\ stPc = "stopped" => stDiag # "none"

\* the same for the entry points of process_itau_unified_v1.py and for an
\* unreadable configuration of ocr_to_csv.py
StStopsWhereChecked ==
    (StConfigurationFailure /\ ~(stEntry = "csv" /\ stConfigOk)) =>
        /\ stRasterized = {} /\ stRecognized = {} /\ stRows = <<>>
        /\ stPc \in {"start", "stopped"}
        /\ stPc = "stopped" => stDiag # "none"

(* ---- Claims about page order in the Row Assembler ---- *)

\* the record the called assembler returns for a page list
AsAssembled(pages) ==
    IF asBank = "itau"
    THEN itau_process_document_unified(pages, asDocType, asGeoUtils, asSource)
    ELSE santander_process_document_unified(pages, asDocType, asGeoUtils, asSource)

\* the completeness score of one page, as the called assembler computes it
AsPageScore(text) ==
    IF asBank = "santander" THEN SantanderRowScore(SantanderRow(text))
    ELSE IF asDocType = "PP" THEN PagareScore(PagareRow(text))
    ELSE ConsumoScore(ConsumoRow(text))

AsScoresDistinct(pages) ==
    \A i, j \in 1..Len(pages) : i # j => AsPageScore(pages[i]) # AsPageScore(pages[j])

\* every reordering of a page list
AsPermutations(pages) ==
    {[i \in 1..Len(pages) |-> pages[p[i]]] :
        p \in {f \in [1..Len(pages) -> 1..Len(pages)] :
                  \A i, j \in 1..Len(pages) : i # j => f[i] # f[j]}}

\* the index of the page max(rows, key=score_row_basic) returns
AsBestIndex(pages) ==
    CHOOSE i \in 1..Len(pages) :
        BestRow([k \in 1..Len(pages) |-> [idx |-> k]],
                [k \in 1..Len(pages) |-> AsPageScore(pages[k])]).idx = i

\* C23: with pairwise distinct completeness scores every permutation of the
\* page list yields the same record; on a tie of the highest score the page
\* with the lowest index is the best page.
C23_PageOrderIrrelevant ==
    asPc = "returned" =>
        /\ AsScoresDistinct(asPages) =>
              \A q \in AsPermutations(asPages) : AsAssembled(q) = asRecord
        /\ asPages # <<>> =>
              \A j \in 1..Len(asPages) :
                  /\ AsPageScore(asPages[j]) <= AsPageScore(asPages[AsBestIndex(asPages)])
                  /\ AsPageScore(asPages[j]) = AsPageScore(asPages[AsBestIndex(asPages)])
                        => AsBestIndex(asPages) <= j

\* the second half alone: the best page has the highest score and, among
\* the pages of that score, the lowest index
AsBestIsFirstOfHighest ==
    (asPc = "returned" /\ asPages # <<>>) =>
        \A j \in 1..Len(asPages) :
            /\ AsPageScore(asPages[j]) <= AsPageScore(asPages[AsBestIndex(asPages)])
            /\ AsPageScore(asPages[j]) = AsPageScore(asPages[AsBestIndex(asPages)])
                  => AsBestIndex(asPages) <= j

-----------------------------------------------------------------------------
(* Concurrent web calls: two requests of the web application run            *)
(* process_pdf_files of one bank module in two threads of one process        *)
(* (process_itau_unified_v1.py, process_santander_unified_v1.py,             *)
(* webapp/app.py). Each call handles one uploaded PDF. The steps of a call   *)
(* interleave with those of the other at every statement.                    *)

MaxClock == 1

CwCalls == {1, 2}
CwStems == {"a", "b"}

\* the module's own DEBUG_FILE, and the debug path of a web call
CwDefaultDebug == <<>>
CwPath(ts) == <<ts>>

MapDel(m, k) == [x \in (DOMAIN m) \ {k} |-> m[x]]

\* calls that have taken their timestamp and not yet returned
CwRunning(i) == cwPc[i] \notin {"idle", "returned"}

\* the other calls whose paths are built from timestamp ts
CwOthersAt(i, ts) == {j \in CwCalls \ {i} : cwPc[j] # "idle" /\ cwTs[j] = ts}

InitWeb ==
    /\ cwClock = 0
    /\ cwGlobal = CwDefaultDebug
    /\ cwPc = [i \in CwCalls |-> "idle"]
    /\ cwTs = [i \in CwCalls |-> 0]
    /\ cwPrev = [i \in CwCalls |-> CwDefaultDebug]
    /\ cwStem \in [CwCalls -> CwStems]
    /\ cwDebug = <<>>
    /\ cwRi = <<>>
    /\ cwXlsx = <<>>
    /\ cwLog = {}
    /\ cwLost = {}
    /\ IdleBut("web")

\* a second passes
CwTick ==
    /\ cwClock < MaxClock
    /\ cwClock' = cwClock + 1
    /\ UNCHANGED <<cwGlobal, cwPc, cwTs, cwPrev, cwStem, cwDebug, cwRi, cwXlsx, cwLog, cwLost,
                   notWeb>>

\* ts = datetime.now().strftime("%Y%m%d_%H%M%S"); xlsx_path, debug_path and
\* ri_root are named after it
CwStamp(i) ==
    /\ cwPc[i] = "idle"
    /\ cwTs' = [cwTs EXCEPT ![i] = cwClock]
    /\ cwPc' = [cwPc EXCEPT ![i] = "stamped"]
    /\ UNCHANGED <<cwClock, cwGlobal, cwPrev, cwStem, cwDebug, cwRi, cwXlsx, cwLog, cwLost,
                   notWeb>>

\* prev_debug = DEBUG_FILE
CwSavePrev(i) ==
    /\ cwPc[i] = "stamped"
    /\ cwPrev' = [cwPrev EXCEPT ![i] = cwGlobal]
    /\ cwPc' = [cwPc EXCEPT ![i] = "saved"]
    /\ UNCHANGED <<cwClock, cwGlobal, cwTs, cwStem, cwDebug, cwRi, cwXlsx, cwLog, cwLost,
                   notWeb>>

\* DEBUG_FILE = debug_path
CwRedirect(i) ==
    /\ cwPc[i] = "saved"
    /\ cwGlobal' = CwPath(cwTs[i])
    /\ cwPc' = [cwPc EXCEPT ![i] = "redirected"]
    /\ UNCHANGED <<cwClock, cwTs, cwPrev, cwStem, cwDebug, cwRi, cwXlsx, cwLog, cwLost,
                   notWeb>>

\* DEBUG_FILE.unlink(missing_ok=True): the file the global names now
CwUnlink(i) ==
    /\ cwPc[i] = "redirected"
    /\ cwDebug' = MapDel(cwDebug, cwGlobal)
    /\ cwLost' = IF cwGlobal \in DOMAIN cwDebug /\ cwGlobal # CwDefaultDebug
                 THEN cwLost \cup CwOthersAt(i, cwGlobal[1]) ELSE cwLost
    /\ cwPc' = [cwPc EXCEPT ![i] = "loop"]
    /\ UNCHANGED <<cwClock, cwGlobal, cwTs, cwPrev, cwStem, cwRi, cwXlsx, cwLog, notWeb>>

\* convert_pdf_to_images(pdf_path, ri_root / pdf_path.stem, ...): page1.png
\* is saved into the folder
CwRasterize(i) ==
    /\ cwPc[i] = "loop"
    /\ LET folder == <<cwTs[i], cwStem[i]>>
       IN  /\ cwRi' = MapPut(cwRi, folder, i)
           /\ cwLost' = IF folder \in DOMAIN cwRi /\ cwRi[folder] # i
                        THEN cwLost \cup {cwRi[folder]} ELSE cwLost
    /\ cwPc' = [cwPc EXCEPT ![i] = "rasterized"]
    /\ UNCHANGED <<cwClock, cwGlobal, cwTs, cwPrev, cwStem, cwDebug, cwXlsx, cwLog, notWeb>>

\* write_debug(...): the line is appended to the file the global names now
CwWriteDebug(i) ==
    /\ cwPc[i] = "rasterized"
    /\ cwDebug' = MapPut(cwDebug, cwGlobal,
                         Append(IF cwGlobal \in DOMAIN cwDebug THEN cwDebug[cwGlobal] ELSE <<>>, i))
    /\ cwLog' = cwLog \cup {[call |-> i, file |-> cwGlobal]}
    /\ cwPc' = [cwPc EXCEPT ![i] = "logged"]
    /\ UNCHANGED <<cwClock, cwGlobal, cwTs, cwPrev, cwStem, cwRi, cwXlsx, cwLost, notWeb>>

\* finally: if ri_folder.exists(): shutil.rmtree(ri_folder)
CwCleanup(i) ==
    /\ cwPc[i] = "logged"
    /\ LET folder == <<cwTs[i], cwStem[i]>>
       IN  /\ cwRi' = MapDel(cwRi, folder)
           /\ cwLost' = IF folder \in DOMAIN cwRi /\ cwRi[folder] # i
                        THEN cwLost \cup {cwRi[folder]} ELSE cwLost
    /\ cwPc' = [cwPc EXCEPT ![i] = "cleaned"]
    /\ UNCHANGED <<cwClock, cwGlobal, cwTs, cwPrev, cwStem, cwDebug, cwXlsx, cwLog, notWeb>>

\* df_new.to_excel(xlsx_path, index=False)
CwWriteXlsx(i) ==
    /\ cwPc[i] = "cleaned"
    /\ cwXlsx' = MapPut(cwXlsx, CwPath(cwTs[i]), i)
    /\ cwLost' = IF CwPath(cwTs[i]) \in DOMAIN cwXlsx /\ cwXlsx[CwPath(cwTs[i])] # i
                 THEN cwLost \cup {cwXlsx[CwPath(cwTs[i])]} ELSE cwLost
    /\ cwPc' = [cwPc EXCEPT ![i] = "written"]
    /\ UNCHANGED <<cwClock, cwGlobal, cwTs, cwPrev, cwStem, cwDebug, cwRi, cwLog, notWeb>>

\* finally: DEBUG_FILE = prev_debug
CwRestore(i) ==
    /\ cwPc[i] = "written"
    /\ cwGlobal' = cwPrev[i]
    /\ cwPc' = [cwPc EXCEPT ![i] = "returned"]
    /\ UNCHANGED <<cwClock, cwTs, cwPrev, cwStem, cwDebug, cwRi, cwXlsx, cwLog, cwLost,
                   notWeb>>

NextWeb ==
    \/ CwTick
    \/ \E i \in CwCalls : CwStamp(i)
    \/ \E i \in CwCalls : CwSavePrev(i)
    \/ \E i \in CwCalls : CwRedirect(i)
    \/ \E i \in CwCalls : CwUnlink(i)
    \/ \E i \in CwCalls : CwRasterize(i)
    \/ \E i \in CwCalls : CwWriteDebug(i)
    \/ \E i \in CwCalls : CwCleanup(i)
    \/ \E i \in CwCalls : CwWriteXlsx(i)
    \/ \E i \in CwCalls : CwRestore(i)

SpecWeb == InitWeb /\ [][NextWeb]_vars

(* ---- Claims about concurrent runs ---- *)

\* C24: for any interleaving of two concurrent process_pdf_files calls,
\* every debug line written on behalf of a call is appended to that call's
\* own debug file, and once both calls have returned the module-level
\* DEBUG_FILE has the value it had before either call started.
C24_DebugLinesStayApart ==
    /\ \A l \in cwLog : l.file = CwPath(cwTs[l.call])
    /\ (\A i \in CwCalls : cwPc[i] = "returned") => cwGlobal = CwDefaultDebug

\* one call alone: its lines go to its own file and the global is restored
CwAloneIsClean ==
    \A i \in CwCalls :
        (\A j \in CwCalls \ {i} : cwPc[j] = "idle") =>
            /\ \A l \in cwLog : l.file = CwPath(cwTs[l.call])
            /\ cwPc[i] = "returned" => cwGlobal = CwDefaultDebug

\* C25: two process_pdf_files executions that overlap in time never use the
\* same workbook path, debug file path or temporary raster root, so neither
\* overwrites or deletes files of the other.
C25_OverlappingRunsUseOwnPaths ==
    /\ \A i, j \in CwCalls : (i # j /\ CwRunning(i) /\ CwRunning(j)) => cwTs[i] # cwTs[j]
    /\ cwLost = {}

-----------------------------------------------------------------------------
(* Temporary page images: the folder each document is rasterized into and  *)
(* its removal (process_pdf_files of process_itau_unified_v1.py,            *)
(* process_single_pdf of process_indisa_unified_v1.py, pdf_to_images,       *)
(* process_all_pdfs and cleanup_temp_files of ocr_to_csv.py).               *)

MaxTpDocs == 2

InitTemp ==
    /\ tpEntry \in {"api", "indisa", "csv"}
    /\ tpDocs \in SeqsUpTo({"ok", "raises", "nopages"}, MaxTpDocs)
    /\ tpNext = 1
    /\ tpPc = "loop"
    /\ tpDisk = {}
    /\ tpRows = <<>>
    /\ IdleBut("temp")

\* convert_pdf_to_images: out_folder.mkdir, pages saved (none when the
\* conversion fails); pdf_to_images: pdf_temp_dir.mkdir, pages saved
TpRasterize ==
    /\ tpPc = "loop" /\ tpNext <= Len(tpDocs)
    /\ tpDisk' = tpDisk \cup {tpNext}
    /\ tpPc' = "rasterized"
    /\ UNCHANGED <<tpEntry, tpDocs, tpNext, tpRows, notTemp>>

\* the rest of the loop body: OCR and assembly give a row or raise. A bank
\* module logs the exception, process_single_pdf lets it pass through its
\* finally to a caller that logs it, process_all_pdfs appends
\* create_empty_row; process_pdf returns create_empty_row without pages
TpProcess ==
    /\ tpPc = "rasterized"
    /\ tpRows' = IF tpDocs[tpNext] = "ok" \/ tpEntry = "csv"
                    \/ (tpDocs[tpNext] = "nopages" /\ tpEntry \in {"api", "indisa"})
                 THEN Append(tpRows, tpNext) ELSE tpRows
    /\ tpPc' = IF tpEntry = "csv" THEN "loop" ELSE "finally"
    /\ tpNext' = IF tpEntry = "csv" THEN tpNext + 1 ELSE tpNext
    /\ UNCHANGED <<tpEntry, tpDocs, tpDisk, notTemp>>

\* finally: if ri_folder.exists(): shutil.rmtree(ri_folder)
TpCleanupDoc ==
    /\ tpPc = "finally"
    /\ tpDisk' = tpDisk \ {tpNext}
    /\ tpNext' = tpNext + 1
    /\ tpPc' = "loop"
    /\ UNCHANGED <<tpEntry, tpDocs, tpRows, notTemp>>

\* after the loop the table is written; process_all_pdfs then calls
\* cleanup_temp_files, which removes temp_images with every folder in it
TpFinish ==
    /\ tpPc = "loop" /\ tpNext > Len(tpDocs)
    /\ tpDisk' = IF tpEntry = "csv" THEN {} ELSE tpDisk
    /\ tpPc' = "done"
    /\ UNCHANGED <<tpEntry, tpDocs, tpNext, tpRows, notTemp>>

NextTemp == TpRasterize \/ TpProcess \/ TpCleanupDoc \/ TpFinish

SpecTemp == InitTemp /\ [][NextTemp]_vars

(* ---- Claims about temporary page images ---- *)

\* C26: after a document completes, whether it succeeded or raised, its
\* page image folder no longer exists before the next document starts, so
\* at most one document's page images are on disk at any point of a run.
C26_OneDocumentOnDisk ==
    /\ tpPc = "loop" => tpDisk = {}
    /\ Cardinality(tpDisk) <= 1

\* the same for the entry points that remove the folder in a finally
TpFinallyCleans ==
    tpEntry \in {"api", "indisa"} =>
        /\ tpPc = "loop" => tpDisk = {}
        /\ Cardinality(tpDisk) <= 1

(* ---- Claims about the combined page text of the Page OCR Driver ---- *)

\* len(text) of a text given by its lines
RECURSIVE OcTextLen(_)
OcTextLen(text) ==
    IF text = <<>> THEN 0
    ELSE LineLen(Head(text)) + (IF Len(text) > 1 THEN 1 ELSE 0) + OcTextLen(Tail(text))

\* max(text_results, key=len): the first of the longest outputs
OcBestText(text_results) ==
    text_results[CHOOSE i \in 1..Len(text_results) :
        /\ \A j \in 1..Len(text_results) : OcTextLen(text_results[j]) <= OcTextLen(text_results[i])
        /\ \A j \in 1..(i - 1) : OcTextLen(text_results[j]) < OcTextLen(text_results[i])]

OcAllLines(text_results) == UNION {SeqToSet(text_results[i]) : i \in 1..Len(text_results)}

\* the primary text, then the lines of the other outputs, longest first
OcPrimaryThenRest(text_results) ==
    OcBestText(text_results)
        \o LongestFirst(OcAllLines(text_results) \ SeqToSet(OcBestText(text_results)))

\* extract_text_from_image has just returned the text of a page with at
\* least one successful configuration
OcCombined ==
    /\ ocImpl = "ocr_to_csv" /\ ocPc = "page" /\ ocIdx > 1
    /\ Len(ocTexts) = ocIdx - 1 /\ ocResults # <<>>

\* C27: the driver's result begins with the longest non-empty configuration
\* output, its lines in their original order, followed by the lines found
\* only in the other outputs, longest first; every line of every successful
\* output occurs in the result.
C27_PrimaryTextFirst ==
    OcCombined =>
        /\ ocTexts[ocIdx - 1] = OcPrimaryThenRest(ocResults)
        /\ OcAllLines(ocResults) \subseteq SeqToSet(ocTexts[ocIdx - 1])

\* the second half alone: no line of a successful output is lost
OcEveryLineKept ==
    OcCombined => OcAllLines(ocResults) \subseteq SeqToSet(ocTexts[ocIdx - 1])

(* ---- Claims about the phrase "PAGARE CREDITO CONSUMO" ---- *)

\* the sample phrases that hold "pagaré crédito consumo", with and without "de"
ClPagareCcWithDe == {"Pagaré Crédito de Consumo", "PAGARE CREDITO DE CONSUMO"}
ClPagareCcWithoutDe == {"PAGARE CREDITO CONSUMO"}

ClHasPhrase(phrases) == \E i \in 1..Len(clPages) : clPages[i] \in phrases

\* C28: a document whose text contains "PAGARE CREDITO CONSUMO", with or
\* without the word "DE", with or without accents, is classified CC by
\* detect_document_type although the phrase holds the PP indicator "PAGARE".
C28_PagareCreditoConsumoIsCc ==
    (clImpl = "itau" /\ ClHasPhrase(ClPagareCcWithDe \cup ClPagareCcWithoutDe))
        => clLabel = "CC"

\* the same for the phrase with "de" only
ClPagareCcWithDeIsCc ==
    (clImpl = "itau" /\ ClHasPhrase(ClPagareCcWithDe)) => clLabel = "CC"

-----------------------------------------------------------------------------
(* Row cleaning twice: clean_and_normalize_row with its date and integer    *)
(* formats, applied to a row and then to its own result                     *)
(* (process_itau_auto_v2.py; DATE_FIELDS and INT_FIELDS of constants.py).   *)

DATE_FIELDS == {"FECHA_SUSCRIPCION_1", "FECHA_VENCIMIENTO_1_CUOTA_1",
                "FECHA_VENCIMIENTO_ULTIMA_CUOTA_1", "FECHA_CUOTA_MOROSA_1"}
INT_FIELDS == {"CUOTAS_1", "CUOTA_MOROSA_1"}

IntDigits == {"0", "1", "2", "3", "4", "5", "6", "7", "8", "9"}

\* s.split(",")[0]
RECURSIVE BeforeComma(_)
BeforeComma(s) ==
    IF s = <<>> \/ Head(s) = "," THEN <<>> ELSE <<Head(s)>> \o BeforeComma(Tail(s))

\* normalize_int_digits: clean, drop "." and " ", cut at the first ",",
\* keep the digits
normalize_int_digits(s) ==
    IF s = <<>> THEN <<>>
    ELSE SelectSeq(BeforeComma(SelectSeq(clean_text_value(s), LAMBDA c : c \notin {".", " "})),
                   LAMBDA c : c \in IntDigits)

\* sep.join(groups of three from the right)
RECURSIVE GroupThousands(_, _)
GroupThousands(value, sep) ==
    IF Len(value) <= 3 THEN value
    ELSE GroupThousands(SubSeq(value, 1, Len(value) - 3), sep)
             \o <<sep>> \o SubSeq(value, Len(value) - 2, Len(value))

\* format_int
format_int(value, thousand_sep) ==
    IF value = <<>> \/ \E i \in 1..Len(value) : value[i] \notin IntDigits THEN value
    ELSE IF thousand_sep = "none" THEN value
    ELSE GroupThousands(value, IF thousand_sep = "dot" THEN "." ELSE ",")

\* parse_date_multi on the sample dates, each one token: <<year, month, day>>
\* of the first format of dd-mm-YYYY, dd/mm/YYYY, YYYY-mm-dd, mm/dd/YYYY that
\* parses, <<>> for None
parse_date_multi(s) ==
    LET cand == clean_text_value(s)
    IN  IF s = <<>> \/ Len(cand) # 1 THEN <<>>
        ELSE CASE cand[1] \in {"03/04/2020", "03-04-2020", "2020-04-03"} -> <<2020, 4, 3>>
               [] cand[1] \in {"04/13/2020", "13-04-2020", "2020-04-13"} -> <<2020, 4, 13>>
               [] OTHER -> <<>>

\* format_date: d.isoformat() for "iso", else d.strftime("%d-%m-%Y")
format_date(d, fmt) ==
    IF d = <<>> THEN <<>>
    ELSE IF d = <<2020, 4, 3>>
         THEN (IF fmt = "iso" THEN <<"2020-04-03">> ELSE <<"03-04-2020">>)
         ELSE (IF fmt = "iso" THEN <<"2020-04-13">> ELSE <<"13-04-2020">>)

\* clean_and_normalize_row with the steps "Fechas" and "Montos/enteros",
\* which work on the cleaned cells of their own columns
clean_and_normalize_row_formats(row, date_format, thousand_sep, strict_dv) ==
    LET base == clean_and_normalize_row(row, strict_dv)
    IN  [f \in DOMAIN row |->
            IF f \in DATE_FIELDS /\ parse_date_multi(base[f]) # <<>>
            THEN format_date(parse_date_multi(base[f]), date_format)
            ELSE IF f \in INT_FIELDS
            THEN format_int(normalize_int_digits(base[f]), thousand_sep)
            ELSE base[f]]

RcCuotas == {<<>>, <<"1", "2">>, <<"1", "2", "3", "4">>, <<"1", ".", "2", "3", "4">>,
             <<"1", ",", "5">>, <<"x">>}
RcFechas == {<<>>, <<"03/04/2020">>, <<"04/13/2020">>, <<"2020-04-03">>, <<"x">>}

RcRows ==
    {[RUT |-> id[1], DV |-> id[2], NOMBRE |-> n, NOMBRE_APODERADO |-> a1,
      NOMBRE_APODERADO_2 |-> a2, CUOTAS_1 |-> c, FECHA_SUSCRIPCION_1 |-> d] :
        id \in {<<<<>>, <<>>>>, <<MgRut, MgDv>>, <<MgRut, <<"1">>>>},
        n \in {<<>>, <<"a", "ZWSP", "ACUTE">>},
        a1 \in MgApoderados, a2 \in MgApoderados,
        c \in RcCuotas, d \in RcFechas}

InitReclean ==
    /\ rcRow \in RcRows
    /\ rcDateFormat \in {"iso", "dmy"}
    /\ rcSep \in {"none", "dot", "comma"}
    /\ rcStrict \in BOOLEAN
    /\ rcOnce = <<>>
    /\ rcTwice = <<>>
    /\ rcPc = "raw"
    /\ IdleBut("reclean")

\* clean_and_normalize_row(row, date_format, thousand_sep, strict_dv, stats)
RcFirstPass ==
    /\ rcPc = "raw"
    /\ rcOnce' = clean_and_normalize_row_formats(rcRow, rcDateFormat, rcSep, rcStrict)
    /\ rcPc' = "once"
    /\ UNCHANGED <<rcRow, rcDateFormat, rcSep, rcStrict, rcTwice, notReclean>>

\* the same call on the row it returned
RcSecondPass ==
    /\ rcPc = "once"
    /\ rcTwice' = clean_and_normalize_row_formats(rcOnce, rcDateFormat, rcSep, rcStrict)
    /\ rcPc' = "twice"
    /\ UNCHANGED <<rcRow, rcDateFormat, rcSep, rcStrict, rcOnce, notReclean>>

NextReclean == RcFirstPass \/ RcSecondPass

SpecReclean == InitReclean /\ [][NextReclean]_vars

(* ---- Claims about cleaning a row twice ---- *)

\* C29: row cleaning is idempotent: clean_and_normalize_row applied, with
\* the same date format, thousands separator and strict flag, to a row it
\* has produced returns the same row; the default attorney names and the
\* integers formatted with a thousands separator are left unchanged.
C29_RowCleaningIdempotent ==
    rcPc = "twice" => rcTwice = rcOnce

\* the columns a second pass leaves alone: the identity, the dates and,
\* unless the separator is the comma, the integers
RcStableColumns ==
    rcPc = "twice" =>
        \A f \in DOMAIN rcOnce :
            (f \in {"RUT", "DV"} \cup DATE_FIELDS \/ (f \in INT_FIELDS /\ rcSep # "comma"))
                => rcTwice[f] = rcOnce[f]

(***************************************************************************)
(* The two stages of the CSV pipeline                                      *)
(*                                                                         *)
(* ocr_to_csv.write_csv writes a file that process_itau_auto_v2.process    *)
(* reads: process maps every header with normalize_header, cleans the row  *)
(* and keeps the columns of CANONICAL_HEADERS.  Header names are whole     *)
(* strings; an accented vowel of an alias is written as the vowel followed *)
(* by an apostrophe.  No debug file is given, so merge_from_debug returns  *)
(* the row as it is.                                                       *)
(***************************************************************************)

\* the headers list of write_csv
WrittenHeaders ==
    <<"OPERACION", "RUT", "DV", "NOMBRE", "DIRECCION", "COMUNA",
      "FECHA_SUSCRIPCION", "MONTO_CREDITO", "CUOTAS", "TASA",
      "MONTO_CUOTA", "MONTO_ULTIMA_CUOTA",
      "FECHA_VENCIMIENTO_1_CUOTA", "FECHA_VENCIMIENTO_ULTIMA_CUOTA",
      "CUOTA_MOROSA", "FECHA_CUOTA_MOROSA",
      "CAPITAL", "PRODUCTO", "NOMBRE_APODERADO", "NOMBRE_APODERADO_2">>

\* constants.HEADER_ALIASES, as (alias, canonical name) pairs
HEADER_ALIASES ==
    <<<<"operacion", "OPERACION_1">>,
      <<"numero_operacion", "OPERACION_1">>,
      <<"num_operacion", "OPERACION_1">>,
      <<"op", "OPERACION_1">>,
      <<"rut_cliente", "RUT">>,
      <<"rutcliente", "RUT">>,
      <<"rut cliente", "RUT">>,
      <<"cedula", "RUT">>,
      <<"digito_verificador", "DV">>,
      <<"dv", "DV">>,
      <<"nombre_completo", "NOMBRE">>,
      <<"nombre completo", "NOMBRE">>,
      <<"nombres", "NOMBRE">>,
      <<"apellidos", "NOMBRE">>,
      <<"razo'n social", "NOMBRE">>,
      <<"razon social", "NOMBRE">>,
      <<"deudor", "NOMBRE">>,
      <<"cliente", "NOMBRE">>,
      <<"direccion", "DIRECCION">>,
      <<"direccio'n", "DIRECCION">>,
      <<"domicilio", "DIRECCION">>,
      <<"domicilio particular", "DIRECCION">>,
      <<"ciudad", "COMUNA">>,
      <<"localidad", "COMUNA">>,
      <<"fecha_suscripcion", "FECHA_SUSCRIPCION_1">>,
      <<"fecha suscripcion", "FECHA_SUSCRIPCION_1">>,
      <<"fecha_contrato", "FECHA_SUSCRIPCION_1">>,
      <<"fecha contrato", "FECHA_SUSCRIPCION_1">>,
      <<"fecha_firma", "FECHA_SUSCRIPCION_1">>,
      <<"fecha firma", "FECHA_SUSCRIPCION_1">>,
      <<"monto", "MONTO_CREDITO_1">>,
      <<"monto_credito", "MONTO_CREDITO_1">>,
      <<"monto credito", "MONTO_CREDITO_1">>,
      <<"monto cre'dito", "MONTO_CREDITO_1">>,
      <<"valor credito", "MONTO_CREDITO_1">>,
      <<"importe", "MONTO_CREDITO_1">>,
      <<"cantidad", "MONTO_CREDITO_1">>,
      <<"cuotas", "CUOTAS_1">>,
      <<"numero cuotas", "CUOTAS_1">>,
      <<"num_cuotas", "CUOTAS_1">>,
      <<"plazo", "CUOTAS_1">>,
      <<"plazo_meses", "CUOTAS_1">>,
      <<"plazo meses", "CUOTAS_1">>,
      <<"tasa", "TASA_1">>,
      <<"tasa_interes", "TASA_1">>,
      <<"tasa interes", "TASA_1">>,
      <<"tasa intere's", "TASA_1">>,
      <<"tasa anual", "TASA_1">>,
      <<"interes", "TASA_1">>,
      <<"intere's", "TASA_1">>,
      <<"monto_cuota", "MONTO_CUOTA_1">>,
      <<"cuota_mensual", "MONTO_CUOTA_1">>,
      <<"valor_cuota", "MONTO_CUOTA_1">>,
      <<"iguales", "MONTO_CUOTA_1">>,
      <<"mpc", "MONTO_CUOTA_1">>,
      <<"monto_ultima_cuota", "MONTO_ULTIMA_CUOTA_1">>,
      <<"ultima_cuota", "MONTO_ULTIMA_CUOTA_1">>,
      <<"muc", "MONTO_ULTIMA_CUOTA_1">>,
      <<"fecha_primera_cuota", "FECHA_VENCIMIENTO_1_CUOTA_1">>,
      <<"fecha_vencimiento_primera", "FECHA_VENCIMIENTO_1_CUOTA_1">>,
      <<"fpv", "FECHA_VENCIMIENTO_1_CUOTA_1">>,
      <<"fecha_ultima_cuota", "FECHA_VENCIMIENTO_ULTIMA_CUOTA_1">>,
      <<"fecha_vencimiento_ultima", "FECHA_VENCIMIENTO_ULTIMA_CUOTA_1">>,
      <<"fuv", "FECHA_VENCIMIENTO_ULTIMA_CUOTA_1">>,
      <<"capital", "CAPITAL_1">>,
      <<"capital_insoluto", "CAPITAL_1">>,
      <<"saldo_capital", "CAPITAL_1">>,
      <<"exhorto", "EXHORTO">>,
      <<"tribunal", "EXHORTO">>,
      <<"juzgado", "EXHORTO">>,
      <<"oficina", "SUCURSAL">>,
      <<"agencia", "SUCURSAL">>,
      <<"codigo_producto", "PRODUCTO">>,
      <<"co'digo producto", "PRODUCTO">>,
      <<"tipo_credito", "PRODUCTO">>,
      <<"tipo_producto", "PRODUCTO">>,
      <<"apoderado_1", "NOMBRE_APODERADO">>,
      <<"apoderado 1", "NOMBRE_APODERADO">>,
      <<"nombre_apoderado_1", "NOMBRE_APODERADO">>,
      <<"apoderado_2", "NOMBRE_APODERADO_2">>,
      <<"apoderado 2", "NOMBRE_APODERADO_2">>>>

\* str.strip() of a header: the sample header typed with blanks around it
HeaderStrip(h) == IF h = " cuotas " THEN "cuotas" ELSE h

\* HEADER_ALIASES.get(h, h)
AliasGet(h) ==
    IF \E i \in 1..Len(HEADER_ALIASES) : HEADER_ALIASES[i][1] = h
    THEN HEADER_ALIASES[CHOOSE i \in 1..Len(HEADER_ALIASES) : HEADER_ALIASES[i][1] = h][2]
    ELSE h

\* normalize_header: the header stripped, then looked up among the aliases
normalize_header(h) == AliasGet(HeaderStrip(h))

\* headers of a file typed by hand, in the spelling the aliases know
HandHeaders == <<"operacion", "rut cliente", "dv", " cuotas ", "fpv", "capital">>

HdHeadersOf(file) == IF file = "ocr" THEN WrittenHeaders ELSE HandHeaders

HdValues == {<<"1", "2">>, <<"x">>}

\* the command line's defaults of --date-format, --thousand-sep, --strict-dv
HdDateFormat == "iso"
HdThousandSep == "none"
HdStrictDv == FALSE

\* {header: row.get(header, "") for header in headers}
HdComplete(row, headers) ==
    [h \in SeqToSet(headers) |-> DictGet(row, h, <<>>)]

\* {normalize_header(k): v for k, v in raw.items()}: of two headers with one
\* name the later one stays
HdRemap(raw, headers) ==
    [n \in {normalize_header(h) : h \in SeqToSet(headers)} |->
        LET last == CHOOSE i \in 1..Len(headers) :
                        /\ normalize_header(headers[i]) = n
                        /\ \A j \in (i + 1)..Len(headers) : normalize_header(headers[j]) # n
        IN  raw[headers[last]]]

\* row.setdefault(h, "") for every canonical header
HdSetDefaults(row) ==
    [h \in (DOMAIN row) \cup SeqToSet(CANONICAL_HEADERS) |-> DictGet(row, h, <<>>)]

\* one row through process(): remapped, cleaned, cut to the canonical columns
HdProcessRow(raw, headers) ==
    LET row == clean_and_normalize_row_formats(HdSetDefaults(HdRemap(raw, headers)),
                                               HdDateFormat, HdThousandSep, HdStrictDv)
    IN  [h \in SeqToSet(CANONICAL_HEADERS) |-> DictGet(row, h, <<>>)]

\* a row with one filled column
InitHeaders ==
    /\ hdFile \in {"ocr", "hand"}
    /\ \E h \in SeqToSet(HdHeadersOf(hdFile)), v \in HdValues : hdRow = (h :> v)
    /\ hdCsv = <<>>
    /\ hdOut = <<>>
    /\ hdPc = "row"
    /\ IdleBut("headers")

\* write_csv: the header line and the row completed to it
HdWriteCsv ==
    /\ hdPc = "row"
    /\ hdCsv' = HdComplete(hdRow, HdHeadersOf(hdFile))
    /\ hdPc' = "written"
    /\ UNCHANGED <<hdFile, hdRow, hdOut>>
    /\ UNCHANGED notHeaders

\* process() on the file's row
HdProcess ==
    /\ hdPc = "written"
    /\ hdOut' = HdProcessRow(hdCsv, HdHeadersOf(hdFile))
    /\ hdPc' = "processed"
    /\ UNCHANGED <<hdFile, hdRow, hdCsv>>
    /\ UNCHANGED notHeaders

NextHeaders ==
    \/ HdWriteCsv
    \/ HdProcess

SpecHeaders == InitHeaders /\ [][NextHeaders]_vars

\* the canonical column a written column stands for: its own name, or the
\* name with the suffix of the first operation
HdCorresponding(h) ==
    IF h \in SeqToSet(CANONICAL_HEADERS) THEN h
    ELSE IF h = "FECHA_VENCIMIENTO_1_CUOTA" THEN "FECHA_VENCIMIENTO_1a_CUOTA_1"
    ELSE CHOOSE c \in SeqToSet(CANONICAL_HEADERS) :
             \E i \in 1..Len(WrittenHeaders) : WrittenHeaders[i] = h /\ CANONICAL_HEADERS[i] = c

\* C30: no column is lost between the stages: a filled cell of any of the 20
\* written columns is filled in its canonical column of the cleaner's row,
\* and every written name and every name of DATE_FIELDS and INT_FIELDS is
\* mapped by normalize_header to a canonical header
C30_NoColumnLost ==
    (hdPc = "processed" /\ hdFile = "ocr") =>
        /\ \A h \in SeqToSet(WrittenHeaders) \cup DATE_FIELDS \cup INT_FIELDS :
               normalize_header(h) \in SeqToSet(CANONICAL_HEADERS)
        /\ \A h \in DOMAIN hdRow : hdRow[h] # <<>> => hdOut[HdCorresponding(h)] # <<>>

\* a number written under a name that is canonical already keeps its cell
HdSharedNamesKept ==
    (hdPc = "processed" /\ hdFile = "ocr") =>
        \A h \in (DOMAIN hdRow) \cap SeqToSet(CANONICAL_HEADERS) :
            hdRow[h] = <<"1", "2">> => hdOut[h] # <<>>

\* a number under a header spelled as an alias reaches the column of the
\* alias when that name is canonical
HdAliasReaches ==
    (hdPc = "processed" /\ hdFile = "hand") =>
        \A h \in DOMAIN hdRow :
            (hdRow[h] = <<"1", "2">> /\ normalize_header(h) \in SeqToSet(CANONICAL_HEADERS))
                => hdOut[normalize_header(h)] # <<>>

\* a written column whose name is not canonical leaves every canonical
\* column but the defaults of the two attorneys empty
HdSuffixedColumnLost ==
    (hdPc = "processed" /\ hdFile = "ocr") =>
        \A h \in (DOMAIN hdRow) \ SeqToSet(CANONICAL_HEADERS) :
            \A c \in SeqToSet(CANONICAL_HEADERS) \ {"NOMBRE_APODERADO", "NOMBRE_APODERADO_2"} :
                hdOut[c] = <<>>

====
